---- MODULE Spec2Model ----
(***************************************************************************)
(* Model of quantTrader's order execution lifecycle engine:                *)
(*   - ExecutionTracker          (src/quant_trader/execution_tracker.py)   *)
(*   - EnhancedPositionManager   (src/quant_trader/execution_tracker.py)   *)
(* Every public operation is one atomic action (the driver is              *)
(* single-threaded).  The broker and the backend are the environment: each *)
(* of their calls returns a value drawn from a small set or raises.        *)
(* Text (status strings, symbols) is a sequence of one-character strings   *)
(* so that lower() and split('.') are computed, not assumed.               *)
(***************************************************************************)
EXTENDS Integers, Sequences, FiniteSets, TLC

VARIABLES
    pending_executions,   \* ExecutionTracker._pending_executions : order_id -> ExecutionRecord
    broker_to_order_map,  \* ExecutionTracker._broker_to_order_map : broker_order_id -> order_id
    now,                  \* time.time()
    sync_interval,        \* EnhancedPositionManager.sync_interval
    last_sync,            \* EnhancedPositionManager._last_sync
    account_id,           \* EnhancedPositionManager.account_id
    broker_name,          \* EnhancedPositionManager.broker_name
    op,                   \* the last operation called, with its inputs
    ret,                  \* what the last operation returned ("true", "false", "raised", "none")
    calls,                \* broker/backend calls made by the last operation, in order
    prev_sync,            \* history: the sync_positions calls before the last one
    completed,            \* history: order_id -> broker_order_id of the record when it reached a terminal status
    resubmitted,          \* history: orders of `completed` registered again since
    failures,             \* history: order_id -> consecutive submit_order calls in which place_order raised
    steps,                \* history: the number of operations called (where a run is bounded)
    map_in,               \* input of the last _map_broker_status evaluation
    map_out,              \* its result
    execution_tracking,   \* TraderLoop.execution_tracker is not None
    pc,                   \* TraderLoop.run_forever: where its thread is
    _stop,                \* TraderLoop._stop
    iteration,            \* history: what the current iteration of run_forever has done
    closes,               \* history: the number of broker.close() calls
    last_account_sync,    \* EnhancedPositionManager._last_account_sync
    account_info_cache,   \* EnhancedPositionManager._account_info_cache
    prev_account          \* history: the sync_account calls before the last one

vars == <<pending_executions, broker_to_order_map, now, sync_interval, last_sync,
          account_id, broker_name, op, ret, calls, prev_sync, completed, resubmitted, failures, steps,
          map_in, map_out, execution_tracking, pc, _stop, iteration, closes,
          last_account_sync, account_info_cache, prev_account>>

trackerVars == <<pending_executions, broker_to_order_map>>
accountVars == <<last_account_sync, account_info_cache, prev_account>>
managerVars == <<now, sync_interval, last_sync, account_id, broker_name, prev_sync, accountVars>>
mapVars     == <<map_in, map_out>>
driverVars  == <<execution_tracking, pc, _stop, iteration, closes>>

-----------------------------------------------------------------------------
(* Bounds of the model *)

MaxReports == 2      \* entries in one broker get_execution_status() result
MaxFailures == 4     \* consecutive failed submissions of one order that are explored
MaxOps == 4          \* operations in a run that records which records were completed
MaxPositions == 2    \* entries in one broker query_positions() result
MaxTime == 7         \* the last clock reading explored
MaxCaps == 4         \* leading characters of a status text whose letter case is varied
MaxDisturbed == 2     \* operations before the backend is reachable again
MaxSignals == 2       \* signals returned by one get_pending_signals() call

None == "None"       \* Python None in a string-valued field
NoneNum == 0 - 1     \* Python None in a number-valued field

OrderIds == {"O1", "O2"}
BrokerIds == {"B1", "B2"}
Sizes == {2}
SignalPrices == {1000}
BrokerError == "broker error"
BackendError == "backend error"
max_retries == 3              \* ExecutionTracker.__init__: self.max_retries = 3
DefaultSyncInterval == 60     \* EnhancedPositionManager.__init__(..., sync_interval=60.0)
SyncIntervals == {2, 3}       \* the sync_interval arguments explored, in clock ticks


-----------------------------------------------------------------------------
(* Text as sequences of characters *)

UpperAlpha == <<"A","B","C","D","E","F","G","H","I","J","K","L","M",
                "N","O","P","Q","R","S","T","U","V","W","X","Y","Z">>
LowerAlpha == <<"a","b","c","d","e","f","g","h","i","j","k","l","m",
                "n","o","p","q","r","s","t","u","v","w","x","y","z">>

\* 'A' -> 'a', ..., 'Z' -> 'z'
LowerTable ==
    [c \in {UpperAlpha[i] : i \in 1..Len(UpperAlpha)} |->
        LowerAlpha[CHOOSE i \in 1..Len(UpperAlpha) : UpperAlpha[i] = c]]

UpperTable ==
    [c \in {LowerAlpha[i] : i \in 1..Len(LowerAlpha)} |->
        UpperAlpha[CHOOSE i \in 1..Len(LowerAlpha) : LowerAlpha[i] = c]]

LowerChar(c) == IF c \in DOMAIN LowerTable THEN LowerTable[c] ELSE c

UpperChar(c) == IF c \in DOMAIN UpperTable THEN UpperTable[c] ELSE c

\* str.lower()
Lower(s) == [i \in 1..Len(s) |-> LowerChar(s[i])]

\* the text s with the characters at the positions of `caps` in upper case
Capitalised(s, caps) == [i \in 1..Len(s) |-> IF i \in caps THEN UpperChar(s[i]) ELSE s[i]]

T_filled == <<"f", "i", "l", "l", "e", "d">>
T_complete == <<"c", "o", "m", "p", "l", "e", "t", "e">>
T_partial == <<"p", "a", "r", "t", "i", "a", "l">>
T_partially_filled == <<"p", "a", "r", "t", "i", "a", "l", "l", "y", "_", "f", "i", "l", "l", "e", "d">>
T_rejected == <<"r", "e", "j", "e", "c", "t", "e", "d">>
T_failed == <<"f", "a", "i", "l", "e", "d">>
T_cancelled == <<"c", "a", "n", "c", "e", "l", "l", "e", "d">>
T_canceled == <<"c", "a", "n", "c", "e", "l", "e", "d">>
T_submitted == <<"s", "u", "b", "m", "i", "t", "t", "e", "d">>
T_queued == <<"q", "u", "e", "u", "e", "d">>
T_fill == <<"f", "i", "l", "l">>
T_filled_x == <<"f", "i", "l", "l", "e", "d", " ">>
T_empty == <<>>

-----------------------------------------------------------------------------
(* ExecutionStatus and ExecutionRecord *)

ExecutionStatus == {"PENDING", "SUBMITTED", "FILLED", "PARTIAL_FILLED",
                    "REJECTED", "CANCELLED", "FAILED", "RETRY_PENDING"}

\* ExecutionStatus.<member>.value
StatusValue(status) ==
    CASE status = "PENDING" -> "pending"
      [] status = "SUBMITTED" -> "submitted"
      [] status = "FILLED" -> "filled"
      [] status = "PARTIAL_FILLED" -> "partial_filled"
      [] status = "REJECTED" -> "rejected"
      [] status = "CANCELLED" -> "cancelled"
      [] status = "FAILED" -> "failed"
      [] status = "RETRY_PENDING" -> "retry_pending"

\* the list tested at the end of a poll step and when building the signal update
TerminalStatuses == {"FILLED", "REJECTED", "CANCELLED", "FAILED"}

\* a broker status dict: 'status' may be missing, 'avg_price' may be missing (NoneNum)
BrokerStatusGet(broker_status) ==
    IF broker_status.has_status THEN broker_status.status ELSE T_empty

MapBrokerStatus_FailedIsFailed(broker_status) ==
    LET status == Lower(BrokerStatusGet(broker_status))
    IN  IF status \in {T_filled, T_complete} THEN "FILLED"
        ELSE IF status \in {T_partial, T_partially_filled} THEN "PARTIAL_FILLED"
        ELSE IF status \in {T_rejected} THEN "REJECTED"
        ELSE IF status \in {T_failed} THEN "FAILED"
        ELSE IF status \in {T_cancelled, T_canceled} THEN "CANCELLED"
        ELSE "SUBMITTED"

\* ExecutionTracker._map_broker_status
MapBrokerStatus(broker_status) ==
    LET status == Lower(BrokerStatusGet(broker_status))
    IN  IF status \in {T_filled, T_complete} THEN "FILLED"
        ELSE IF status \in {T_partial, T_partially_filled} THEN "PARTIAL_FILLED"
        ELSE IF status \in {T_rejected, T_failed} THEN "REJECTED"
        ELSE IF status \in {T_cancelled, T_canceled} THEN "CANCELLED"
        ELSE "SUBMITTED"

\* `not order_id`: signal.get("order_id") is None (no such key) or ''
Missing(order_id) == order_id \in {"", None}

\* ExecutionRecord(order_id=..., size=..., target_price=...) with the dataclass
\* defaults.  symbol, action and commission are copied to the backend
\* unchanged and are left out, as are the time stamps.
NewExecutionRecord(signal) ==
    [order_id |-> signal.order_id,
     size |-> signal.size,
     target_price |-> signal.price,
     filled_price |-> NoneNum,
     filled_size |-> 0,
     status |-> "PENDING",
     broker_order_id |-> None,
     retry_count |-> 0,
     last_error |-> None]


-----------------------------------------------------------------------------
(* ExecutionTracker *)

Timestamp == "time.time()"

\* dict[key] = value
Store(table, key, value) ==
    [k \in (DOMAIN table) \cup {key} |-> IF k = key THEN value ELSE table[k]]

\* dict.pop(key, None)
Drop(table, key) ==
    [k \in (DOMAIN table) \ {key} |-> table[k]]

EmptyTable == [k \in {} |-> None]

\* What one operation of the tracker works on: the two tables, the calls it
\* has made so far and its return value.
TrackerState ==
    [pending |-> pending_executions,
     reverse |-> broker_to_order_map,
     calls |-> <<>>,
     ret |-> "none",
     handled |-> {}]

PlaceOrderCall(signal) ==
    [fn |-> "place_order", order_id |-> signal.order_id]

UpdateSignalStatusCall(order_id, payload) ==
    [fn |-> "update_signal_status", order_id |-> order_id, payload |-> payload]

CreateExecutionCall(execution_record) ==
    [fn |-> "create_execution", order_id |-> execution_record.order_id,
     execution |-> execution_record]

\* submit_order, "Update execution record with broker order ID"
MarkSubmitted(execution, broker_order_id) ==
    [execution EXCEPT !.broker_order_id = broker_order_id,
                      !.status = "SUBMITTED"]

TrackSubmitted_NoReverse(st, execution) ==
    [st EXCEPT !.pending = Store(@, execution.order_id, execution)]

\* submit_order, "Store in tracking"
TrackSubmitted(st, execution) ==
    [st EXCEPT !.pending = Store(@, execution.order_id, execution),
               !.reverse = Store(@, execution.broker_order_id, execution.order_id)]

\* submit_order, payload of the "submitted" status update
SubmittedUpdate(execution) ==
    [status |-> "submitted",
     qmt_order_id |-> execution.broker_order_id,
     submitted_at |-> Timestamp]

\* submit_order, "Mark as retry pending"
MarkRetryPending(execution, error) ==
    [execution EXCEPT !.status = "RETRY_PENDING",
                      !.retry_count = @ + 1,
                      !.last_error = error]

\* submit_order, payload of the "retry_pending" status update
RetryPendingUpdate(execution) ==
    [status |-> "retry_pending",
     retry_count |-> execution.retry_count,
     last_error |-> execution.last_error,
     updated_at |-> Timestamp]

\* submit_order, the except block: entered with the record as the try block
\* left it; the status update it sends is not guarded, so its exception
\* leaves submit_order.
SubmitOrderExcept(st, execution, error, update_ok) ==
    LET failed == MarkRetryPending(execution, error)
    IN  [st EXCEPT !.pending = Store(@, failed.order_id, failed),
                   !.calls = Append(@, UpdateSignalStatusCall(failed.order_id,
                                                              RetryPendingUpdate(failed))),
                   !.ret = IF update_ok THEN "false" ELSE "raised"]

\* ExecutionTracker.submit_order.  placed: what broker.place_order does;
\* submitted_ok, retry_ok: whether the backend accepts the "submitted" and
\* the "retry_pending" status update.
SubmitOrderResult(st, signal, placed, submitted_ok, retry_ok) ==
    IF Missing(signal.order_id)
    THEN [st EXCEPT !.ret = "false"]
    ELSE LET execution == NewExecutionRecord(signal)
             st1 == [st EXCEPT !.calls = Append(@, PlaceOrderCall(signal))]
         IN  IF placed.raises
             THEN SubmitOrderExcept(st1, execution, placed.error, retry_ok)
             ELSE IF placed.id = ""
             THEN [st1 EXCEPT !.ret = "false"]
             ELSE LET submitted == MarkSubmitted(execution, placed.id)
                      st2 == TrackSubmitted(st1, submitted)
                      st3 == [st2 EXCEPT !.calls =
                                 Append(@, UpdateSignalStatusCall(signal.order_id,
                                                                  SubmittedUpdate(submitted)))]
                  IN  IF submitted_ok
                      THEN [st3 EXCEPT !.ret = "true"]
                      ELSE SubmitOrderExcept(st3, submitted, BackendError, retry_ok)

ApplyBrokerStatus_KeepsPrice(execution, broker_status) ==
    [execution EXCEPT !.status = MapBrokerStatus(broker_status),
                      !.filled_size = broker_status.filled_size]

\* poll_execution_status, "Update execution based on broker status"
ApplyBrokerStatus(execution, broker_status) ==
    [execution EXCEPT !.status = MapBrokerStatus(broker_status),
                      !.filled_size = broker_status.filled_size,
                      !.filled_price = broker_status.avg_price]

\* _update_execution_in_backend, the execution record sent to the backend:
\* the record's fields, then the broker's fields whose keys it lacks
\* ('status' and 'filled_size' are there already, 'avg_price' is not).
ExecutionReport(execution, broker_status) ==
    [order_id |-> execution.order_id,
     size |-> execution.size,
     target_price |-> execution.target_price,
     filled_price |-> execution.filled_price,
     filled_size |-> execution.filled_size,
     status |-> StatusValue(execution.status),
     broker_order_id |-> execution.broker_order_id,
     timestamp |-> Timestamp,
     avg_price |-> broker_status.avg_price]

SignalUpdate_AlwaysExecutedAt(execution) ==
    [status |-> StatusValue(execution.status),
     filled_qty |-> execution.filled_size,
     avg_price |-> execution.filled_price,
     updated_at |-> Timestamp,
     executed_at |-> Timestamp]

\* _update_execution_in_backend, the signal status update
SignalUpdate(execution) ==
    IF execution.status \in TerminalStatuses
    THEN [status |-> StatusValue(execution.status),
          filled_qty |-> execution.filled_size,
          avg_price |-> execution.filled_price,
          updated_at |-> Timestamp,
          executed_at |-> Timestamp]
    ELSE [status |-> StatusValue(execution.status),
          filled_qty |-> execution.filled_size,
          avg_price |-> execution.filled_price,
          updated_at |-> Timestamp]

\* ExecutionTracker._update_execution_in_backend: the calls it makes.
\* outcome: "create_raises" when create_execution raises, which skips the
\* status update; "update_raises" when update_signal_status, the last call of
\* the try block, raises; else "ok".  Both exceptions are caught and logged.
UpdateExecutionInBackend(execution, broker_status, outcome) ==
    IF outcome = "create_raises"
    THEN <<CreateExecutionCall(ExecutionReport(execution, broker_status))>>
    ELSE <<CreateExecutionCall(ExecutionReport(execution, broker_status)),
           UpdateSignalStatusCall(execution.order_id, SignalUpdate(execution))>>

CompleteExecution_KeepsRecord(st, order_id) ==
    st

\* ExecutionTracker._complete_execution
CompleteExecution(st, order_id) ==
    IF order_id \in DOMAIN st.pending
    THEN LET execution == st.pending[order_id]
         IN  [st EXCEPT !.pending = Drop(@, order_id),
                        !.reverse = IF execution.broker_order_id # None
                                    THEN Drop(@, execution.broker_order_id)
                                    ELSE @]
    ELSE st

PollEntry_Propagates(st, report, outcome, i) ==
    IF st.calls # <<>> /\ st.calls[Len(st.calls)].fn = "create_execution"
    THEN st
    ELSE IF report.broker_order_id \notin DOMAIN st.reverse
    THEN st
    ELSE LET order_id == st.reverse[report.broker_order_id]
         IN  IF order_id \notin DOMAIN st.pending
             THEN st
             ELSE LET execution == ApplyBrokerStatus(st.pending[order_id], report)
                      st1 == [st EXCEPT
                                 !.pending = Store(@, order_id, execution),
                                 !.calls = @ \o UpdateExecutionInBackend(execution, report, outcome),
                                 !.handled = @ \cup {i}]
                  IN  IF outcome # "create_raises" /\ execution.status \in TerminalStatuses
                      THEN CompleteExecution(st1, order_id)
                      ELSE st1

PollEntry_SearchesRecords(st, report, outcome, i) ==
    LET carrying == {o \in DOMAIN st.pending :
                        st.pending[o].broker_order_id = report.broker_order_id}
    IN  IF report.broker_order_id \notin DOMAIN st.reverse /\ carrying = {}
        THEN st
        ELSE LET order_id == IF report.broker_order_id \in DOMAIN st.reverse
                             THEN st.reverse[report.broker_order_id]
                             ELSE CHOOSE o \in carrying : TRUE
             IN  IF order_id \notin DOMAIN st.pending
                 THEN st
                 ELSE LET execution == ApplyBrokerStatus(st.pending[order_id], report)
                          st1 == [st EXCEPT
                                     !.pending = Store(@, order_id, execution),
                                     !.calls = @ \o UpdateExecutionInBackend(execution, report, outcome),
                                     !.handled = @ \cup {i}]
                      IN  IF execution.status \in TerminalStatuses
                          THEN CompleteExecution(st1, order_id)
                          ELSE st1

\* poll_execution_status, the body of the loop for the i-th broker entry
PollEntry(st, report, outcome, i) ==
    IF report.broker_order_id \notin DOMAIN st.reverse
    THEN st
    ELSE LET order_id == st.reverse[report.broker_order_id]
         IN  IF order_id \notin DOMAIN st.pending
             THEN st
             ELSE LET execution == ApplyBrokerStatus(st.pending[order_id], report)
                      st1 == [st EXCEPT
                                 !.pending = Store(@, order_id, execution),
                                 !.calls = @ \o UpdateExecutionInBackend(execution, report, outcome),
                                 !.handled = @ \cup {i}]
                  IN  IF execution.status \in TerminalStatuses
                      THEN CompleteExecution(st1, order_id)
                      ELSE st1

RECURSIVE PollLoop(_, _, _, _)
\* poll_execution_status, the loop over broker_executions.items()
PollLoop(st, reports, outcomes, i) ==
    IF i > Len(reports)
    THEN st
    ELSE PollLoop(PollEntry(st, reports[i], outcomes[i], i), reports, outcomes, i + 1)

\* ExecutionTracker.get_pending_count
GetPendingCount(st) == Cardinality(DOMAIN st.pending)

\* ExecutionTracker.get_execution_status
GetExecutionStatus(st, order_id) ==
    IF order_id \in DOMAIN st.pending THEN st.pending[order_id].status ELSE None

GetExecutionStatusCall == [fn |-> "get_execution_status"]

\* ExecutionTracker.poll_execution_status.  query_raises: whether
\* broker.get_execution_status raises (caught and logged by the method).
PollExecutionStatusResult(st, query_raises, reports, outcomes) ==
    LET st1 == [st EXCEPT !.calls = Append(@, GetExecutionStatusCall)]
    IN  IF query_raises THEN st1 ELSE PollLoop(st1, reports, outcomes, 1)


-----------------------------------------------------------------------------
(* The environment of the tracker: signals, broker and backend outcomes *)

\* a signal of the backend; its order_id may be empty or missing
Signals == [order_id : OrderIds \cup {"", None}, size : Sizes, price : SignalPrices]

\* broker.place_order raises, returns an empty id, or returns a broker order id
PlaceOutcomes ==
    {[raises |-> TRUE, error |-> BrokerError, id |-> ""]}
    \cup {[raises |-> FALSE, error |-> None, id |-> b] : b \in BrokerIds \cup {""}}

\* the status dicts a broker reports for one order: a 'status' text with
\* 'filled_size' (0 when missing) and 'avg_price' (None when missing); the
\* order size of the model is 2, so a fill of 3 is an overfill
QueuedStatus ==
    [has_status |-> TRUE, status |-> T_queued, filled_size |-> 0, avg_price |-> NoneNum]

BrokerStatuses ==
    {[has_status |-> TRUE, status |-> T_filled, filled_size |-> 3, avg_price |-> 1010],
     [has_status |-> TRUE, status |-> T_partial, filled_size |-> 1, avg_price |-> 1005],
     [has_status |-> TRUE, status |-> T_rejected, filled_size |-> 0, avg_price |-> NoneNum],
     QueuedStatus}

\* the entries of the dict returned by broker.get_execution_status()
Reports ==
    {[broker_order_id |-> b, has_status |-> s.has_status, status |-> s.status,
      filled_size |-> s.filled_size, avg_price |-> s.avg_price] :
        b \in BrokerIds, s \in BrokerStatuses}

SeqsUpTo(S, n) == UNION {[1..k -> S] : k \in 0..n}

\* a dict has no two entries with the same key
DistinctKeys(reports) ==
    \A i, j \in 1..Len(reports) :
        i # j => reports[i].broker_order_id # reports[j].broker_order_id

\* the dicts get_execution_status() can return, as lists of entries in
\* iteration order
ReportSeqs == {reports \in SeqsUpTo(Reports, MaxReports) : DistinctKeys(reports)}

BackendOutcomes == {"ok", "create_raises"}

-----------------------------------------------------------------------------
(* Actions of the tracker *)

\* One call of submit_order: the tables after it and what it was seen to do
SubmitOrderCall(signal, placed, submitted_ok, retry_ok) ==
    LET st == SubmitOrderResult(TrackerState, signal, placed, submitted_ok, retry_ok)
        attempted == ~Missing(signal.order_id)
    IN  \* an input that the call does not read has one value
        /\ ~attempted => placed.raises /\ submitted_ok /\ retry_ok
        /\ (placed.raises \/ placed.id = "") => submitted_ok
        /\ (~placed.raises /\ (placed.id = "" \/ submitted_ok)) => retry_ok
        /\ pending_executions' = st.pending
        /\ broker_to_order_map' = st.reverse
        /\ calls' = st.calls
        /\ ret' = st.ret
        /\ op' = [name |-> "submit_order", signal |-> signal, placed |-> placed,
                  submitted_ok |-> submitted_ok, retry_ok |-> retry_ok]

\* the entries that a pass over `reports` handles (the others are skipped)
HandledEntries(reports) ==
    PollLoop(TrackerState, reports, [i \in 1..Len(reports) |-> "ok"], 1).handled

\* an entry that a pass skips is not read: it has one value
SkippedUnread(reports, handled) ==
    \A i \in 1..Len(reports) :
        i \notin handled =>
            /\ reports[i].has_status = QueuedStatus.has_status
            /\ reports[i].status = QueuedStatus.status
            /\ reports[i].filled_size = QueuedStatus.filled_size
            /\ reports[i].avg_price = QueuedStatus.avg_price

\* the backend outcomes a pass can meet: one for each entry it handles
PollOutcomes(reports, handled) ==
    {outcomes \in [1..Len(reports) -> BackendOutcomes] :
        \A i \in 1..Len(reports) : i \notin handled => outcomes[i] = "ok"}

\* One call of poll_execution_status
PollExecutionStatusCall(query_raises, reports, outcomes) ==
    LET st == PollExecutionStatusResult(TrackerState, query_raises, reports, outcomes)
    IN  /\ Len(outcomes) = Len(reports)
        /\ query_raises => reports = <<>>
        /\ pending_executions' = st.pending
        /\ broker_to_order_map' = st.reverse
        /\ calls' = st.calls
        /\ ret' = st.ret
        /\ op' = [name |-> "poll_execution_status", query_raises |-> query_raises,
                  reports |-> reports, outcomes |-> outcomes, handled |-> st.handled]

\* a pass whose broker query returns `reports`, with every backend outcome
PollReports(reports) ==
    LET handled == HandledEntries(reports)
    IN  /\ SkippedUnread(reports, handled)
        /\ \E outcomes \in PollOutcomes(reports, handled) :
               PollExecutionStatusCall(FALSE, reports, outcomes)

historyVars == <<completed, resubmitted, failures, steps>>

SubmitOrder ==
    /\ \E signal \in Signals, placed \in PlaceOutcomes, submitted_ok, retry_ok \in BOOLEAN :
           SubmitOrderCall(signal, placed, submitted_ok, retry_ok)
    /\ UNCHANGED <<historyVars, managerVars, mapVars, driverVars>>

PollExecutionStatus ==
    /\ \E reports \in ReportSeqs : PollReports(reports)
    /\ UNCHANGED <<historyVars, managerVars, mapVars, driverVars>>

PollExecutionStatusQueryRaises ==
    /\ PollExecutionStatusCall(TRUE, <<>>, <<>>)
    /\ UNCHANGED <<historyVars, managerVars, mapVars, driverVars>>

-----------------------------------------------------------------------------
(* The tracker as a state machine *)

\* no iteration of run_forever has started.  fetched: the number of signals
\* get_pending_signals returned (NoneNum before it returns); raised_in: the
\* step whose exception ended the iteration; stopped_in: the step during which
\* stop() was called; previous_raised: an exception ended the iteration before.
NoIteration ==
    [started |-> FALSE, synced |-> FALSE, fetched |-> NoneNum, handled |-> 0,
     polled |-> FALSE, raised_in |-> "none", stopped_in |-> "none",
     previous_raised |-> FALSE]

\* TraderLoop.__init__: self._stop = False; run_forever has not been called
LoopNotStarted ==
    /\ pc = "not_started"
    /\ _stop = FALSE
    /\ iteration = NoIteration
    /\ closes = 0

\* no sync_account call has been made
NoEarlierAccountSync == [called |-> NoneNum, performed |-> NoneNum, force |-> FALSE]

\* EnhancedPositionManager.__init__: _last_account_sync = 0, no cached account
AccountNotSynced ==
    /\ last_account_sync = 0
    /\ account_info_cache = None
    /\ prev_account = NoEarlierAccountSync

\* no sync_positions call has been made
NoEarlierSync == [called |-> NoneNum, performed |-> NoneNum, succeeded |-> FALSE]

\* The state after construction of a tracker and of a position manager with
\* the default sync_interval and a broker whose get_account_info() raises.
\* The clock starts late enough for the first sync not to be rate-limited
\* (time.time() is seconds since 1970, _last_sync starts at 0).
Init ==
    /\ pending_executions = EmptyTable
    /\ broker_to_order_map = EmptyTable
    /\ sync_interval = DefaultSyncInterval
    /\ now = sync_interval
    /\ last_sync = 0
    /\ AccountNotSynced
    /\ account_id = None
    /\ broker_name = "unknown"
    /\ op = [name |-> "init"]
    /\ ret = "none"
    /\ calls = <<>>
    /\ prev_sync = NoEarlierSync
    /\ completed = [o \in OrderIds |-> "NotDone"]
    /\ resubmitted = {}
    /\ failures = [o \in OrderIds |-> 0]
    /\ steps = 0
    /\ map_in = [has_status |-> FALSE, status |-> T_empty]
    /\ map_out = "none"
    /\ execution_tracking = TRUE
    /\ LoopNotStarted

Next ==
    \/ SubmitOrder
    \/ PollExecutionStatus
    \/ PollExecutionStatusQueryRaises

Spec == Init /\ [][Next]_vars

-----------------------------------------------------------------------------
(* The tracker with the history of consecutive failed submissions *)

SubmitOrderCounted ==
    /\ \E signal \in Signals, placed \in PlaceOutcomes, submitted_ok, retry_ok \in BOOLEAN :
           /\ SubmitOrderCall(signal, placed, submitted_ok, retry_ok)
           /\ (~Missing(signal.order_id) /\ placed.raises) =>
                  failures[signal.order_id] < MaxFailures
           /\ failures' = IF ~Missing(signal.order_id)
                          THEN [failures EXCEPT ![signal.order_id] =
                                   IF placed.raises THEN @ + 1 ELSE 0]
                          ELSE failures
    /\ UNCHANGED <<completed, resubmitted, steps, managerVars, mapVars, driverVars>>

NextRetry == SubmitOrderCounted

SpecRetry == Init /\ [][NextRetry]_vars

-----------------------------------------------------------------------------
(* The tracker with the history of the records that reached a terminal status *)

\* the orders whose completed record this submit_order registers again: the
\* order_id gets a record again, or its broker_order_id enters the reverse index
Reregistered(signal, placed) ==
    {o \in OrderIds :
        /\ completed[o] # "NotDone"
        /\ \/ o = signal.order_id /\ (placed.raises \/ placed.id # "")
           \/ ~placed.raises /\ ~Missing(signal.order_id) /\ placed.id = completed[o]}

TerminalValues == {StatusValue(status) : status \in TerminalStatuses}

\* the orders for which a pass reported a terminal status to the backend
TerminalReported(sent) ==
    {sent[k].order_id : k \in {j \in 1..Len(sent) :
        sent[j].fn = "create_execution" /\ sent[j].execution.status \in TerminalValues}}

\* the broker_order_id of the record of order_id when the pass reported it terminal
TerminalBrokerId(sent, order_id) ==
    LET last == CHOOSE k \in 1..Len(sent) :
                    /\ sent[k].fn = "create_execution"
                    /\ sent[k].order_id = order_id
                    /\ sent[k].execution.status \in TerminalValues
                    /\ \A j \in (k + 1)..Len(sent) :
                           ~(/\ sent[j].fn = "create_execution"
                             /\ sent[j].order_id = order_id
                             /\ sent[j].execution.status \in TerminalValues)
    IN  sent[last].execution.broker_order_id

SubmitOrderAudited ==
    /\ steps < MaxOps
    /\ steps' = steps + 1
    /\ \E signal \in Signals, placed \in PlaceOutcomes, submitted_ok, retry_ok \in BOOLEAN :
           /\ SubmitOrderCall(signal, placed, submitted_ok, retry_ok)
           /\ resubmitted' = resubmitted \cup Reregistered(signal, placed)
    /\ UNCHANGED <<completed, failures, managerVars, mapVars, driverVars>>

PollExecutionStatusAudited ==
    /\ steps < MaxOps
    /\ steps' = steps + 1
    /\ \E reports \in ReportSeqs :
           /\ PollReports(reports)
           /\ completed' = [o \in OrderIds |->
                               IF o \in TerminalReported(calls')
                               THEN TerminalBrokerId(calls', o)
                               ELSE completed[o]]
           /\ resubmitted' = resubmitted \ TerminalReported(calls')
    /\ UNCHANGED <<failures, managerVars, mapVars, driverVars>>

NextDone ==
    \/ SubmitOrderAudited
    \/ PollExecutionStatusAudited

SpecDone == Init /\ [][NextDone]_vars

-----------------------------------------------------------------------------
(* The tracker with a backend whose every call can fail *)

\* create_execution raises, update_signal_status raises, or neither does
BackendFailures == {"ok", "create_raises", "update_raises"}

PollFailingBackend ==
    /\ steps < MaxOps
    /\ steps' = steps + 1
    /\ \E reports \in ReportSeqs :
           LET handled == HandledEntries(reports)
           IN  /\ SkippedUnread(reports, handled)
               /\ \E outcomes \in [1..Len(reports) -> BackendFailures] :
                      /\ \A i \in 1..Len(reports) : i \notin handled => outcomes[i] = "ok"
                      /\ PollExecutionStatusCall(FALSE, reports, outcomes)
    /\ UNCHANGED <<completed, resubmitted, failures, managerVars, mapVars, driverVars>>

NextBackend ==
    \/ SubmitOrderAudited
    \/ PollFailingBackend

SpecBackend == Init /\ [][NextBackend]_vars

-----------------------------------------------------------------------------
(* The tracker polled for ever by TraderLoop.run_forever, once the backend is
   reachable again *)

\* what the broker reports once every order it was given is filled
FinalReports ==
    {reports \in [1..Cardinality(BrokerIds) -> Reports] :
        /\ DistinctKeys(reports)
        /\ \A i \in DOMAIN reports :
               /\ reports[i].status = T_filled
               /\ reports[i].filled_size = 3}

\* A pass of the loop after the backend has recovered: no backend call fails
\* and the broker reports every order it was given.
PollRecovered ==
    /\ \E reports \in FinalReports :
           PollExecutionStatusCall(FALSE, reports, [i \in 1..Len(reports) |-> "ok"])
    /\ UNCHANGED <<historyVars, managerVars, mapVars, driverVars>>

\* the backend recovers after MaxDisturbed operations
NextConverge ==
    \/ steps < MaxDisturbed /\ SubmitOrderAudited
    \/ steps < MaxDisturbed /\ PollFailingBackend
    \/ PollRecovered

\* run_forever polls in every iteration of its loop
SpecConverge == Init /\ [][NextConverge]_vars /\ WF_vars(PollRecovered)

-----------------------------------------------------------------------------
(* The tracker on top of SimulatedBroker.place_order, polled for ever *)

\* f"SIM-{int(time.time())}": one id per second of the clock; the run lasts
\* two seconds
SimulatedBrokerId(second) ==
    IF second = DefaultSyncInterval THEN "B1" ELSE "B2"

\* SimulatedBroker.place_order: it never raises and returns the id of the
\* current second
SimulatedPlaceOrder(second) ==
    [raises |-> FALSE, error |-> None, id |-> SimulatedBrokerId(second)]

\* submit_order of a tracker whose broker places orders as SimulatedBroker does
SubmitSimulated ==
    /\ steps < MaxDisturbed
    /\ steps' = steps + 1
    /\ \E signal \in Signals, submitted_ok, retry_ok \in BOOLEAN :
           SubmitOrderCall(signal, SimulatedPlaceOrder(now), submitted_ok, retry_ok)
    /\ UNCHANGED <<completed, resubmitted, failures, managerVars, mapVars, driverVars>>

\* the clock reaches the next second
TickSecond ==
    /\ now = DefaultSyncInterval
    /\ now' = now + 1
    /\ UNCHANGED <<sync_interval, last_sync, account_id, broker_name, prev_sync, accountVars>>
    /\ UNCHANGED <<trackerVars, historyVars, mapVars, driverVars, op, ret, calls>>

NextSimulated ==
    \/ SubmitSimulated
    \/ TickSecond
    \/ PollRecovered

\* run_forever polls in every iteration of its loop; the broker reports every
\* id it gave as filled
SpecSimulated == Init /\ [][NextSimulated]_vars /\ WF_vars(PollRecovered)


-----------------------------------------------------------------------------
(* TraderLoop._handle_signal *)

\* _handle_signal, the "retry_pending" update of its except blocks; an
\* exception of this call is caught and logged and changes nothing
FallbackUpdate(order_id, error) ==
    UpdateSignalStatusCall(order_id, [status |-> "retry_pending", last_error |-> error])

\* _handle_signal with an execution tracker: submit_order, and the fallback
\* update when submit_order raises
HandleTracked(st, sig, placed, submitted_ok, retry_ok) ==
    LET done == SubmitOrderResult(st, sig, placed, submitted_ok, retry_ok)
    IN  IF done.ret = "raised"
        THEN [done EXCEPT !.calls = Append(@, FallbackUpdate(sig.order_id, BackendError)),
                          !.ret = "none"]
        ELSE [done EXCEPT !.ret = "none"]

PriceOr_NoDefault(price) == price

\* sig.get("price") or 100.0, with the price in cents
PriceOr(price) == IF price \in {NoneNum, 0} THEN 10000 ELSE price

\* sig.get("size") or 0
SizeOr(size) == IF size \in {NoneNum, 0} THEN 0 ELSE size

\* _handle_signal without a tracker, the execution reported as filled at once
ImmediateExecution(sig, broker_order_id) ==
    [order_id |-> sig.order_id,
     size |-> sig.size,
     target_price |-> sig.price,
     filled_price |-> PriceOr(sig.price),
     filled_size |-> SizeOr(sig.size),
     status |-> "filled",
     qmt_order_id |-> broker_order_id]

\* _handle_signal without a tracker ("old behavior"): place the order, mark
\* the signal submitted, report it filled; the first call that raises ends
\* the try block and the fallback update follows
HandleUntracked(st, sig, placed, submitted_ok, create_ok) ==
    LET st1 == [st EXCEPT !.calls = Append(@, PlaceOrderCall(sig)), !.ret = "none"]
        st2 == [st1 EXCEPT !.calls = Append(@, UpdateSignalStatusCall(sig.order_id,
                               [status |-> "submitted", qmt_order_id |-> placed.id]))]
        st3 == [st2 EXCEPT !.calls = Append(@, CreateExecutionCall(
                               ImmediateExecution(sig, placed.id)))]
    IN  IF placed.raises
        THEN [st1 EXCEPT !.calls = Append(@, FallbackUpdate(sig.order_id, placed.error))]
        ELSE IF ~submitted_ok
        THEN [st2 EXCEPT !.calls = Append(@, FallbackUpdate(sig.order_id, BackendError))]
        ELSE IF ~create_ok
        THEN [st3 EXCEPT !.calls = Append(@, FallbackUpdate(sig.order_id, BackendError))]
        ELSE st3

HandleSignalResult_NoGuard(st, sig, placed, submitted_ok, retry_ok, create_ok) ==
    IF execution_tracking
    THEN HandleTracked(st, sig, placed, submitted_ok, retry_ok)
    ELSE HandleUntracked(st, sig, placed, submitted_ok, create_ok)

\* TraderLoop._handle_signal
HandleSignalResult(st, sig, placed, submitted_ok, retry_ok, create_ok) ==
    IF Missing(sig.order_id)
    THEN st
    ELSE IF execution_tracking
    THEN HandleTracked(st, sig, placed, submitted_ok, retry_ok)
    ELSE HandleUntracked(st, sig, placed, submitted_ok, create_ok)

\* One call of _handle_signal.  An input the call does not read has one value.
HandleSignalCall(sig, placed, submitted_ok, retry_ok, create_ok) ==
    /\ Missing(sig.order_id) => placed.raises /\ submitted_ok /\ retry_ok /\ create_ok
    /\ execution_tracking =>
           /\ create_ok
           /\ (placed.raises \/ placed.id = "") => submitted_ok
           /\ (~placed.raises /\ (placed.id = "" \/ submitted_ok)) => retry_ok
    /\ ~execution_tracking =>
           /\ retry_ok
           /\ placed.raises => submitted_ok
           /\ (placed.raises \/ ~submitted_ok) => create_ok
    /\ \E st \in {HandleSignalResult(TrackerState, sig, placed, submitted_ok,
                                     retry_ok, create_ok)} :
           /\ pending_executions' = st.pending
           /\ broker_to_order_map' = st.reverse
           /\ calls' = st.calls
           /\ ret' = st.ret
    /\ op' = [name |-> "_handle_signal", signal |-> sig, placed |-> placed,
              submitted_ok |-> submitted_ok, retry_ok |-> retry_ok,
              create_ok |-> create_ok]

HandleSignal ==
    /\ \E sig \in Signals, placed \in PlaceOutcomes, submitted_ok, retry_ok, create_ok \in BOOLEAN :
           HandleSignalCall(sig, placed, submitted_ok, retry_ok, create_ok)
    /\ UNCHANGED <<historyVars, managerVars, mapVars, driverVars>>

\* the signals handed to a loop without a tracker: 'size' and 'price' may be
\* missing (NoneNum) or zero
LegacySignals ==
    [order_id : OrderIds \cup {"", None}, size : {NoneNum, 0, 2}, price : {NoneNum, 0, 1000}]

\* One call of _handle_signal of a TraderLoop built with
\* enable_execution_tracking=False
HandleLegacySignal ==
    /\ ~execution_tracking
    /\ \E sig \in LegacySignals, placed \in PlaceOutcomes, submitted_ok, create_ok \in BOOLEAN :
           HandleSignalCall(sig, placed, submitted_ok, TRUE, create_ok)
    /\ UNCHANGED <<historyVars, managerVars, mapVars, driverVars>>

\* The state after construction of a TraderLoop, with or without execution tracking
InitDriver ==
    /\ pending_executions = EmptyTable
    /\ broker_to_order_map = EmptyTable
    /\ sync_interval = DefaultSyncInterval
    /\ now = sync_interval
    /\ last_sync = 0
    /\ AccountNotSynced
    /\ account_id = None
    /\ broker_name = "unknown"
    /\ op = [name |-> "init"]
    /\ ret = "none"
    /\ calls = <<>>
    /\ prev_sync = NoEarlierSync
    /\ completed = [o \in OrderIds |-> "NotDone"]
    /\ resubmitted = {}
    /\ failures = [o \in OrderIds |-> 0]
    /\ steps = 0
    /\ map_in = [has_status |-> FALSE, status |-> T_empty]
    /\ map_out = "none"
    /\ execution_tracking \in BOOLEAN
    /\ LoopNotStarted

\* the driver hands signals to the tracker; submit_order is also called directly
NextDriver ==
    \/ HandleSignal
    \/ SubmitOrder

SpecDriver == InitDriver /\ [][NextDriver]_vars

NextLegacy == HandleLegacySignal

SpecLegacy == InitDriver /\ [][NextLegacy]_vars

-----------------------------------------------------------------------------
(* TraderLoop.run_forever and stop *)

WhileCondition_IgnoresStop ==
    TRUE

\* run_forever: while not self._stop
WhileCondition ==
    ~_stop

AfterStep_Propagates(raises, next) ==
    IF raises THEN "finally" ELSE next

\* run_forever, the try block of one iteration: an exception of a step is
\* caught and logged and the thread goes to time.sleep; else to the next step
AfterStep(raises, next) ==
    IF raises THEN "sleep" ELSE next

AfterHandle_ChecksStop(it) ==
    IF _stop THEN "sleep"
    ELSE IF it.handled < it.fetched THEN "handle" ELSE "poll"

\* run_forever: for sig in signals: ...; the poll follows the last signal
AfterHandle(it) ==
    IF it.handled < it.fetched THEN "handle" ELSE "poll"

\* the steps of the try block
IterationSteps == {"sync", "fetch", "handle", "poll"}

Raised(it, raises, step) ==
    IF raises THEN [it EXCEPT !.raised_in = step] ELSE it

\* TraderLoop.run_forever is called
RunForever ==
    /\ pc = "not_started"
    /\ pc' = "while"
    /\ UNCHANGED <<_stop, iteration, closes>>

\* TraderLoop.stop, called by a signal handler or another thread at any time
Stop ==
    /\ ~_stop
    /\ _stop' = TRUE
    /\ iteration' = IF pc \in IterationSteps
                     THEN [iteration EXCEPT !.stopped_in = pc]
                     ELSE iteration
    /\ UNCHANGED <<pc, closes>>

\* the loop condition: a new iteration starts or the loop is left
WhileCheck ==
    /\ pc = "while"
    /\ IF WhileCondition
       THEN /\ pc' = "sync"
            /\ iteration' = [NoIteration EXCEPT
                                !.started = TRUE,
                                !.previous_raised = iteration.raised_in # "none"]
       ELSE /\ pc' = "finally"
            /\ UNCHANGED iteration
    /\ UNCHANGED <<_stop, closes>>

\* sync_positions, sync_account and the portfolio summary
SyncStep ==
    /\ pc = "sync"
    /\ \E raises \in BOOLEAN :
           /\ pc' = AfterStep(raises, "fetch")
           /\ iteration' = Raised([iteration EXCEPT !.synced = ~raises], raises, "sync")
    /\ UNCHANGED <<_stop, closes>>

\* signals = self.api.get_pending_signals(...)
FetchStep ==
    /\ pc = "fetch"
    /\ \E raises \in BOOLEAN, n \in 0..MaxSignals :
           /\ raises => n = 0
           /\ pc' = AfterStep(raises,
                              AfterHandle([iteration EXCEPT !.fetched = n]))
           /\ iteration' = Raised([iteration EXCEPT
                                      !.fetched = IF raises THEN NoneNum ELSE n],
                                  raises, "fetch")
    /\ UNCHANGED <<_stop, closes>>

\* self._handle_signal(sig) for the next fetched signal; it raises when the
\* signal is not a dict
HandleStep ==
    /\ pc = "handle"
    /\ \E raises \in BOOLEAN :
           /\ pc' = AfterStep(raises,
                              AfterHandle([iteration EXCEPT !.handled = @ + 1]))
           /\ iteration' = Raised([iteration EXCEPT
                                      !.handled = IF raises THEN @ ELSE @ + 1],
                                  raises, "handle")
    /\ UNCHANGED <<_stop, closes>>

PollStep_IgnoresTracking ==
    /\ pc = "poll"
    /\ pc' = "sleep"
    /\ iteration' = [iteration EXCEPT !.polled = TRUE]
    /\ UNCHANGED <<_stop, closes>>

\* if self.execution_tracker: poll_execution_status(), which catches every
\* exception itself
PollStep ==
    /\ pc = "poll"
    /\ pc' = "sleep"
    /\ iteration' = [iteration EXCEPT !.polled = execution_tracking]
    /\ UNCHANGED <<_stop, closes>>

\* time.sleep(self.cfg.poll_interval)
SleepStep ==
    /\ pc = "sleep"
    /\ pc' = "while"
    /\ UNCHANGED <<_stop, iteration, closes>>

\* finally: self.broker.close(), whose exception leaves run_forever
FinallyStep ==
    /\ pc = "finally"
    /\ closes' = closes + 1
    /\ \E raises \in BOOLEAN : pc' = IF raises THEN "raised" ELSE "returned"
    /\ UNCHANGED <<_stop, iteration>>

\* the steps of the thread that runs run_forever
LoopStep ==
    \/ WhileCheck
    \/ SyncStep
    \/ FetchStep
    \/ HandleStep
    \/ PollStep
    \/ SleepStep
    \/ FinallyStep

loopFrame == <<trackerVars, managerVars, mapVars, historyVars, op, ret, calls,
               execution_tracking>>

NextLoop ==
    \/ RunForever /\ UNCHANGED loopFrame
    \/ Stop /\ UNCHANGED loopFrame
    \/ LoopStep /\ UNCHANGED loopFrame

\* the thread of run_forever keeps running: every call it makes returns or raises
SpecLoop == InitDriver /\ [][NextLoop]_vars /\ WF_vars(LoopStep /\ UNCHANGED loopFrame)

-----------------------------------------------------------------------------
(* One iteration of run_forever with the signals it fetched *)

MaxIterations == 2

\* the iteration with the signals it fetched and those it has handled, in order
WithSignals(it, signals, handled_signals) ==
    [started |-> it.started, synced |-> it.synced, fetched |-> it.fetched,
     handled |-> it.handled, polled |-> it.polled, raised_in |-> it.raised_in,
     stopped_in |-> it.stopped_in, previous_raised |-> it.previous_raised,
     signals |-> signals, handled_signals |-> handled_signals]

\* _handle_signal sent its fallback "retry_pending" update
FallbackSent(sent) ==
    \E k \in 1..Len(sent) :
        /\ sent[k].fn = "update_signal_status"
        /\ sent[k].payload.status = "retry_pending"
        /\ "retry_count" \notin DOMAIN sent[k].payload

FallbackGuard_Propagates(fallback_ok) ==
    IF fallback_ok THEN "none" ELSE "raised"

\* _handle_signal, the try block around its fallback update: an exception
\* of the update is caught and logged
FallbackGuard(fallback_ok) ==
    "none"

\* while not self._stop, for a bounded number of iterations
IterationStart ==
    /\ steps < MaxIterations
    /\ steps' = steps + 1
    /\ WhileCheck
    /\ UNCHANGED <<trackerVars, managerVars, mapVars, completed, resubmitted, failures,
                   op, ret, calls, execution_tracking>>

\* signals = self.api.get_pending_signals(...): it raises or returns a list
FetchSignals ==
    /\ pc = "fetch"
    /\ \E raises \in BOOLEAN, signals \in SeqsUpTo(Signals, MaxSignals) :
           /\ raises => signals = <<>>
           /\ pc' = AfterStep(raises,
                              AfterHandle([iteration EXCEPT !.fetched = Len(signals)]))
           /\ iteration' = WithSignals(
                               Raised([iteration EXCEPT
                                          !.fetched = IF raises THEN NoneNum ELSE Len(signals)],
                                      raises, "fetch"),
                               signals, <<>>)
    /\ UNCHANGED <<_stop, closes>>

\* self._handle_signal(sig) for the next fetched signal, with every outcome
\* of the broker and of the backend
HandleFetched ==
    /\ pc = "handle"
    /\ \E placed \in PlaceOutcomes, submitted_ok, retry_ok, create_ok, fallback_ok \in BOOLEAN :
           LET sig == iteration.signals[iteration.handled + 1]
           IN  /\ HandleSignalCall(sig, placed, submitted_ok, retry_ok, create_ok)
               /\ ~FallbackSent(calls') => fallback_ok
               /\ LET raises == \/ ret' = "raised"
                                \/ FallbackSent(calls') /\ FallbackGuard(fallback_ok) = "raised"
                      handled == [order_id |-> sig.order_id,
                                  fallback |-> FallbackSent(calls'),
                                  fallback_ok |-> fallback_ok]
                  IN  /\ pc' = AfterStep(raises,
                                         AfterHandle([iteration EXCEPT !.handled = @ + 1]))
                      /\ iteration' = Raised([iteration EXCEPT
                                                 !.handled = IF raises THEN @ ELSE @ + 1,
                                                 !.handled_signals =
                                                     IF raises THEN @ ELSE Append(@, handled)],
                                             raises, "handle")
    /\ UNCHANGED <<_stop, closes, execution_tracking, historyVars, managerVars, mapVars>>

NextIteration ==
    \/ RunForever /\ UNCHANGED loopFrame
    \/ Stop /\ UNCHANGED loopFrame
    \/ IterationStart
    \/ SyncStep /\ UNCHANGED loopFrame
    \/ FetchSignals /\ UNCHANGED loopFrame
    \/ HandleFetched
    \/ PollStep /\ UNCHANGED loopFrame
    \/ SleepStep /\ UNCHANGED loopFrame
    \/ FinallyStep /\ UNCHANGED loopFrame

SpecIteration == InitDriver /\ [][NextIteration]_vars

-----------------------------------------------------------------------------
(* EnhancedPositionManager.sync_positions *)

S_002050_SZ == <<"0", "0", "2", "0", "5", "0", ".", "S", "Z">>
S_600036_SH == <<"6", "0", "0", "0", "3", "6", ".", "S", "H">>
S_002050_SH == <<"0", "0", "2", "0", "5", "0", ".", "S", "H">>
S_AAPL == <<"A", "A", "P", "L">>
S_A_B_C == <<"A", ".", "B", ".", "C">>

Symbols == {S_002050_SZ, S_600036_SH, S_002050_SH, S_AAPL, S_A_B_C}

Range(s) == {s[i] : i \in 1..Len(s)}

\* str.find(sep) + 1 for a one-character sep that occurs in s
Find(s, sep) == CHOOSE i \in 1..Len(s) : s[i] = sep /\ \A j \in 1..(i - 1) : s[j] # sep

\* str.split(sep) for a one-character sep
RECURSIVE Split(_, _)
Split(s, sep) ==
    IF sep \notin Range(s)
    THEN <<s>>
    ELSE <<SubSeq(s, 1, Find(s, sep) - 1)>>
             \o Split(SubSeq(s, Find(s, sep) + 1, Len(s)), sep)

BaseSymbol_LastDot(symbol) ==
    IF "." \in Range(symbol)
    THEN SubSeq(symbol, 1, Len(symbol) - Len(Split(symbol, ".")[Len(Split(symbol, "."))]) - 1)
    ELSE symbol

\* sync_positions, base_symbol
BaseSymbol(symbol) ==
    IF "." \in Range(symbol) THEN Split(symbol, ".")[1] ELSE symbol

\* pos_data.get('qty', 0)
PosDataGet(pos_data) == IF pos_data.has_qty THEN pos_data.qty ELSE 0

\* sync_positions, position_doc.  The volume and value fields other than qty
\* are copied from pos_data in the same way and are not modelled.
PositionDoc(symbol, pos_data, current_time) ==
    [symbol |-> BaseSymbol(symbol),
     qty |-> PosDataGet(pos_data),
     timestamp |-> current_time,
     updated_at |-> current_time,
     account_id |-> account_id,
     broker |-> broker_name]

QueryPositionsCall == [fn |-> "query_positions"]
SyncPositionsCall(position_updates) == [fn |-> "sync_positions", positions |-> position_updates]
CleanupStalePositionsCall(current_symbols, account) ==
    [fn |-> "cleanup_stale_positions", current_symbols |-> current_symbols,
     account_id |-> account]

RateLimited_OffByOne(current_time) == current_time - last_sync < sync_interval - 1

\* sync_positions, "Skip sync if too soon"
RateLimited(current_time) == current_time - last_sync < sync_interval

SyncEmpty_NoCleanup(cleanup_ok) ==
    [calls |-> <<QueryPositionsCall>>, ret |-> "true"]

\* sync_positions when the broker holds no position
SyncEmpty(cleanup_ok) ==
    [calls |-> <<QueryPositionsCall, CleanupStalePositionsCall(<<>>, account_id)>>,
     ret |-> IF cleanup_ok THEN "true" ELSE "false"]

\* sync_positions, the loop: current_symbols and position_updates
CurrentSymbols(broker_positions) ==
    {BaseSymbol(broker_positions[i].symbol) : i \in 1..Len(broker_positions)}

PositionUpdates(broker_positions, current_time) ==
    [i \in 1..Len(broker_positions) |->
        PositionDoc(broker_positions[i].symbol, broker_positions[i].pos_data, current_time)]

SyncBatch_PerDocument(broker_positions, current_time, push_ok, cleanup_ok, symbol_list) ==
    LET position_updates == PositionUpdates(broker_positions, current_time)
        pushes == [i \in 1..Len(position_updates) |->
                       SyncPositionsCall(<<position_updates[i]>>)]
    IN  IF ~push_ok
        THEN [calls |-> <<QueryPositionsCall, pushes[1]>>, ret |-> "false"]
        ELSE [calls |-> <<QueryPositionsCall>> \o pushes
                          \o <<CleanupStalePositionsCall(symbol_list, account_id)>>,
              ret |-> IF cleanup_ok THEN "true" ELSE "false"]

\* sync_positions when the broker holds positions.  symbol_list is
\* list(current_symbols): the set in the order the interpreter iterates it.
SyncBatch(broker_positions, current_time, push_ok, cleanup_ok, symbol_list) ==
    LET position_updates == PositionUpdates(broker_positions, current_time)
    IN  IF ~push_ok
        THEN [calls |-> <<QueryPositionsCall, SyncPositionsCall(position_updates)>>,
              ret |-> "false"]
        ELSE [calls |-> <<QueryPositionsCall, SyncPositionsCall(position_updates),
                          CleanupStalePositionsCall(symbol_list, account_id)>>,
              ret |-> IF cleanup_ok THEN "true" ELSE "false"]

SyncPositionsResult_Propagates(current_time, query, push_ok, cleanup_ok, symbol_list) ==
    IF RateLimited(current_time)
    THEN [calls |-> <<>>, ret |-> "false", last_sync |-> last_sync]
    ELSE LET done == IF query.raises
                     THEN [calls |-> <<QueryPositionsCall>>, ret |-> "raised"]
                     ELSE IF query.positions = <<>>
                     THEN SyncEmpty(cleanup_ok)
                     ELSE SyncBatch(query.positions, current_time, push_ok,
                                    cleanup_ok, symbol_list)
         IN  [calls |-> done.calls, ret |-> done.ret, last_sync |-> current_time]

\* EnhancedPositionManager.sync_positions: what it calls, what it returns and
\* the _last_sync it leaves.  query: the outcome of broker.query_positions();
\* push_ok, cleanup_ok: whether the backend calls return (they raise otherwise).
SyncPositionsResult(current_time, query, push_ok, cleanup_ok, symbol_list) ==
    IF RateLimited(current_time)
    THEN [calls |-> <<>>, ret |-> "false", last_sync |-> last_sync]
    ELSE LET done == IF query.raises
                     THEN [calls |-> <<QueryPositionsCall>>, ret |-> "false"]
                     ELSE IF query.positions = <<>>
                     THEN SyncEmpty(cleanup_ok)
                     ELSE SyncBatch(query.positions, current_time, push_ok,
                                    cleanup_ok, symbol_list)
         IN  [calls |-> done.calls, ret |-> done.ret, last_sync |-> current_time]

-----------------------------------------------------------------------------
(* The environment of the position manager *)

PosData == {[has_qty |-> TRUE, qty |-> 100]}

BrokerPositions == [symbol : Symbols, pos_data : PosData]

\* the dicts query_positions() can return, as lists of entries in iteration order
PositionSeqs ==
    {positions \in SeqsUpTo(BrokerPositions, MaxPositions) :
        \A i, j \in 1..Len(positions) : i # j => positions[i].symbol # positions[j].symbol}

QueryOutcomes ==
    {[raises |-> TRUE, positions |-> <<>>]}
        \cup {[raises |-> FALSE, positions |-> positions] : positions \in PositionSeqs}

\* the lists that hold each element of the set S once
Orderings(S) ==
    {list \in [1..Cardinality(S) -> S] : \A i, j \in 1..Cardinality(S) : i # j => list[i] # list[j]}

\* the summary of the sync_positions calls made so far, the last one included
EarlierSyncs ==
    IF op.name # "sync_positions"
    THEN prev_sync
    ELSE [called |-> op.time,
          performed |-> IF calls # <<>> THEN op.time ELSE prev_sync.performed,
          succeeded |-> IF calls # <<>> THEN ret = "true" ELSE prev_sync.succeeded]

\* One call of sync_positions().  An input the call does not read has one value.
SyncPositions ==
    /\ \E query \in QueryOutcomes, push_ok, cleanup_ok \in BOOLEAN :
           /\ RateLimited(now) => query = [raises |-> TRUE, positions |-> <<>>]
           /\ (query.raises \/ query.positions = <<>>) => push_ok
           /\ (query.raises \/ ~push_ok) => cleanup_ok
           /\ \E symbol_list \in Orderings(CurrentSymbols(query.positions)) :
              \E result \in {SyncPositionsResult(now, query, push_ok, cleanup_ok, symbol_list)} :
                  /\ calls' = result.calls
                  /\ ret' = result.ret
                  /\ last_sync' = result.last_sync
           /\ op' = [name |-> "sync_positions", time |-> now, query |-> query,
                     push_ok |-> push_ok, cleanup_ok |-> cleanup_ok]
    /\ prev_sync' = EarlierSyncs
    /\ UNCHANGED <<now, sync_interval, account_id, broker_name, accountVars>>
    /\ UNCHANGED <<trackerVars, historyVars, mapVars, driverVars>>

\* the clock advances
Tick ==
    /\ now < MaxTime
    /\ now' = now + 1
    /\ UNCHANGED <<sync_interval, last_sync, account_id, broker_name, prev_sync, accountVars>>
    /\ UNCHANGED <<trackerVars, historyVars, mapVars, driverVars, op, ret, calls>>

\* what EnhancedPositionManager.__init__ reads from broker.get_account_info():
\* both keys, or nothing because the call raises
AccountInfos ==
    {[account_id |-> "ACC_X", broker |-> "test_broker"],
     [account_id |-> None, broker |-> "unknown"]}

\* The state after construction of a position manager
InitSync ==
    /\ pending_executions = EmptyTable
    /\ broker_to_order_map = EmptyTable
    /\ sync_interval \in SyncIntervals
    /\ now = sync_interval
    /\ last_sync = 0
    /\ AccountNotSynced
    /\ \E info \in AccountInfos :
           /\ account_id = info.account_id
           /\ broker_name = info.broker
    /\ op = [name |-> "init"]
    /\ ret = "none"
    /\ calls = <<>>
    /\ prev_sync = NoEarlierSync
    /\ completed = [o \in OrderIds |-> "NotDone"]
    /\ resubmitted = {}
    /\ failures = [o \in OrderIds |-> 0]
    /\ steps = 0
    /\ map_in = [has_status |-> FALSE, status |-> T_empty]
    /\ map_out = "none"
    /\ execution_tracking = TRUE
    /\ LoopNotStarted

NextSync ==
    \/ SyncPositions
    \/ Tick

SpecSync == InitSync /\ [][NextSync]_vars

-----------------------------------------------------------------------------
(* The position manager on top of the brokers of the repository *)

\* the positions an account really holds at the broker: stock codes with a volume
AccountHoldings ==
    {holdings \in SeqsUpTo([stock_code : Symbols, volume : {100}], MaxPositions) :
        \A i, j \in 1..Len(holdings) : i # j => holdings[i].stock_code # holdings[j].stock_code}

\* BrokerAdapter.query_positions, the default of a broker that does not
\* support position queries: an empty dict
BaseQueryPositions(holdings) == <<>>

\* MiniQMTBroker.query_positions: an empty dict when not connected, when the
\* query raises or when there are no positions; else one entry per position,
\* keyed by stock_code, whose data has 'volume' and no 'qty'
MiniQMTQueryPositions(connection, holdings) ==
    IF connection \in {"disconnected", "query_failed"} \/ holdings = <<>>
    THEN <<>>
    ELSE [i \in 1..Len(holdings) |->
             [symbol |-> holdings[i].stock_code,
              pos_data |-> [has_qty |-> FALSE, qty |-> 0]]]

\* the brokers and the conditions they can be in
BrokerConditions ==
    {[broker |-> "BrokerAdapter", connection |-> "unsupported"]}
    \cup {[broker |-> "MiniQMTBroker", connection |-> c] :
              c \in {"connected", "disconnected", "query_failed"}}

\* broker.query_positions() of the broker in use
QueryPositions(condition, holdings) ==
    IF condition.broker = "MiniQMTBroker"
    THEN MiniQMTQueryPositions(condition.connection, holdings)
    ELSE BaseQueryPositions(holdings)

\* One call of sync_positions() with one of these brokers, none of which
\* raises from query_positions.
SyncPositionsOfBroker ==
    /\ \E condition \in BrokerConditions, holdings \in AccountHoldings,
          push_ok, cleanup_ok \in BOOLEAN :
           LET query == [raises |-> FALSE, positions |-> QueryPositions(condition, holdings)]
           IN  /\ RateLimited(now) =>
                      /\ condition = [broker |-> "BrokerAdapter", connection |-> "unsupported"]
                      /\ holdings = <<>>
               /\ (RateLimited(now) \/ query.positions = <<>>) => push_ok
               /\ (RateLimited(now) \/ ~push_ok) => cleanup_ok
               /\ \E symbol_list \in Orderings(CurrentSymbols(query.positions)) :
                  \E result \in {SyncPositionsResult(now, query, push_ok, cleanup_ok, symbol_list)} :
                      /\ calls' = result.calls
                      /\ ret' = result.ret
                      /\ last_sync' = result.last_sync
               /\ op' = [name |-> "sync_positions", time |-> now, query |-> query,
                         push_ok |-> push_ok, cleanup_ok |-> cleanup_ok,
                         condition |-> condition, holdings |-> holdings]
    /\ prev_sync' = EarlierSyncs
    /\ UNCHANGED <<now, sync_interval, account_id, broker_name, accountVars>>
    /\ UNCHANGED <<trackerVars, historyVars, mapVars, driverVars>>

NextBroker ==
    \/ SyncPositionsOfBroker
    \/ Tick

SpecBroker == InitSync /\ [][NextBroker]_vars

-----------------------------------------------------------------------------
(* EnhancedPositionManager.sync_account *)

QueryAccountCall == [fn |-> "query_account"]
SyncAccountCall(account_data) == [fn |-> "sync_account", account |-> account_data]

\* sync_account, "Rate limiting"
AccountRateLimited(current_time, force) ==
    ~force /\ current_time - last_account_sync < sync_interval

SyncAccountResult_PushFirst(current_time, force, query, push) ==
    IF AccountRateLimited(current_time, force)
    THEN [calls |-> <<>>, ret |-> account_info_cache,
          last_account_sync |-> last_account_sync, cache |-> account_info_cache]
    ELSE IF query.raises
    THEN [calls |-> <<QueryAccountCall>>, ret |-> account_info_cache,
          last_account_sync |-> last_account_sync, cache |-> account_info_cache]
    ELSE IF query.data = "empty"
    THEN [calls |-> <<QueryAccountCall>>, ret |-> account_info_cache,
          last_account_sync |-> current_time, cache |-> account_info_cache]
    ELSE IF push = "raises"
    THEN [calls |-> <<QueryAccountCall, SyncAccountCall(query.data)>>,
          ret |-> account_info_cache,
          last_account_sync |-> last_account_sync, cache |-> account_info_cache]
    ELSE [calls |-> <<QueryAccountCall, SyncAccountCall(query.data)>>, ret |-> query.data,
          last_account_sync |-> current_time, cache |-> query.data]

\* EnhancedPositionManager.sync_account: what it calls, what it returns, and
\* the _last_account_sync and the cache it leaves.  query: the outcome of
\* broker.query_account(), "empty" for data that is falsy; push: the backend
\* push returns success, returns non-success, or raises.
SyncAccountResult(current_time, force, query, push) ==
    IF AccountRateLimited(current_time, force)
    THEN [calls |-> <<>>, ret |-> account_info_cache,
          last_account_sync |-> last_account_sync, cache |-> account_info_cache]
    ELSE IF query.raises
    THEN [calls |-> <<QueryAccountCall>>, ret |-> account_info_cache,
          last_account_sync |-> last_account_sync, cache |-> account_info_cache]
    ELSE IF query.data = "empty"
    THEN [calls |-> <<QueryAccountCall>>, ret |-> account_info_cache,
          last_account_sync |-> current_time, cache |-> account_info_cache]
    ELSE [calls |-> <<QueryAccountCall, SyncAccountCall(query.data)>>, ret |-> query.data,
          last_account_sync |-> current_time, cache |-> query.data]

\* broker.query_account() raises, returns nothing, or returns a snapshot
AccountQueries ==
    {[raises |-> TRUE, data |-> "empty"]}
        \cup {[raises |-> FALSE, data |-> d] : d \in {"empty", "SNAPSHOT_1", "SNAPSHOT_2"}}

PushOutcomes == {"success", "non_success", "raises"}

\* the summary of the sync_account calls made so far, the last one included
EarlierAccountSyncs ==
    IF op.name # "sync_account"
    THEN prev_account
    ELSE [called |-> op.time,
          performed |-> IF calls # <<>> THEN op.time ELSE prev_account.performed,
          force |-> op.force]

\* One call of sync_account(force).  An input the call does not read has one value.
SyncAccount ==
    /\ \E force \in BOOLEAN, query \in AccountQueries, push \in PushOutcomes :
           /\ AccountRateLimited(now, force) => query = [raises |-> TRUE, data |-> "empty"]
           /\ (query.raises \/ query.data = "empty") => push = "success"
           /\ \E result \in {SyncAccountResult(now, force, query, push)} :
                  /\ calls' = result.calls
                  /\ ret' = result.ret
                  /\ last_account_sync' = result.last_account_sync
                  /\ account_info_cache' = result.cache
           /\ op' = [name |-> "sync_account", time |-> now, force |-> force,
                     query |-> query, push |-> push]
    /\ prev_account' = EarlierAccountSyncs
    /\ UNCHANGED <<now, sync_interval, last_sync, account_id, broker_name, prev_sync>>
    /\ UNCHANGED <<trackerVars, historyVars, mapVars, driverVars>>

NextAccount ==
    \/ SyncAccount
    \/ Tick

SpecAccount == InitSync /\ [][NextAccount]_vars

-----------------------------------------------------------------------------
(* TraderApiClient: the generic request helper and the cleanup endpoint *)

MaxSymbols == 3

\* what one HTTP exchange does: the response arrives with a success status,
\* raise_for_status raises HTTPError, or requests.request itself raises
HttpOutcomes == {"ok", "http_error", "network_error"}

\* the JSON bodies of the cleanup endpoint's responses
ResponseBodies ==
    {[success |-> TRUE, deleted_count |-> n] : n \in 0..2}
    \cup {[success |-> FALSE, deleted_count |-> 0]}

\* requests.request(method, url, json=..., headers=..., timeout=10)
HttpRequest(method, endpoint, json) ==
    [fn |-> "requests.request", method |-> method, endpoint |-> endpoint,
     json |-> json, timeout |-> 10]

RaisedError(outcome) == [raised |-> outcome]

Request_Retries(method, endpoint, json, outcome, body) ==
    IF outcome = "ok"
    THEN [calls |-> <<HttpRequest(method, endpoint, json)>>, ret |-> body]
    ELSE [calls |-> <<HttpRequest(method, endpoint, json),
                      HttpRequest(method, endpoint, json)>>,
          ret |-> RaisedError(outcome)]

\* TraderApiClient._request: one request; the response's JSON is returned,
\* HTTPError and every other exception are logged and raised again.
Request(method, endpoint, json, outcome, body) ==
    [calls |-> <<HttpRequest(method, endpoint, json)>>,
     ret |-> IF outcome = "ok" THEN body ELSE RaisedError(outcome)]

\* TraderApiClient.cleanup_stale_positions: DELETE /trader/positions/cleanup
\* with {current_symbols, securities_account_id} through the request helper
CleanupStalePositions(symbols, account, outcome, body) ==
    Request("DELETE", "/trader/positions/cleanup",
            [current_symbols |-> symbols, securities_account_id |-> account],
            outcome, body)

\* the symbol lists passed to the cleanup: any order, duplicates, empty
CleanupSymbols == {"600000.SH", "300001.SZ"}
CleanupSymbolLists == SeqsUpTo(CleanupSymbols, MaxSymbols)
CleanupAccounts == {"ACC_X", None}

CleanupStalePositionsCalled ==
    /\ \E symbols \in CleanupSymbolLists, account \in CleanupAccounts,
          outcome \in HttpOutcomes, body \in ResponseBodies :
           /\ outcome # "ok" => body = [success |-> FALSE, deleted_count |-> 0]
           /\ \E result \in {CleanupStalePositions(symbols, account, outcome, body)} :
                  /\ calls' = result.calls
                  /\ ret' = result.ret
           /\ op' = [name |-> "cleanup_stale_positions", symbols |-> symbols,
                     account_id |-> account, outcome |-> outcome, body |-> body]
    /\ UNCHANGED <<trackerVars, historyVars, managerVars, mapVars, driverVars>>

NextApi == CleanupStalePositionsCalled

SpecApi == Init /\ [][NextApi]_vars

-----------------------------------------------------------------------------
(* ExecutionTracker._map_broker_status on its own *)

StatusTexts ==
    {T_filled, T_complete, T_partial, T_partially_filled, T_rejected, T_failed,
     T_cancelled, T_canceled, T_submitted, T_queued, T_fill, T_filled_x, T_empty}

\* the broker status dicts explored: no 'status' key, or one of the texts
\* with some of its leading characters in upper case
MapInputs ==
    {[has_status |-> FALSE, status |-> T_empty]}
        \cup {[has_status |-> TRUE, status |-> Capitalised(text, caps)] :
                 text \in StatusTexts, caps \in SUBSET (1..MaxCaps)}

\* One evaluation of _map_broker_status(broker_status)
MapBrokerStatusCall ==
    /\ \E broker_status \in MapInputs :
           /\ map_in' = broker_status
           /\ map_out' = MapBrokerStatus(broker_status)
    /\ UNCHANGED <<trackerVars, managerVars, historyVars, driverVars, op, ret, calls>>

NextMap == MapBrokerStatusCall

SpecMap == Init /\ [][NextMap]_vars

-----------------------------------------------------------------------------
(* What the last operation was seen to do *)

\* the calls of the last operation to one function
CallsOf(sent, fn) == SelectSeq(sent, LAMBDA c : c.fn = fn)

\* the calls of the last operation to one backend function for one order
CallsFor(sent, fn, order_id) ==
    SelectSeq(sent, LAMBDA c : c.fn = fn /\ c.order_id = order_id)

SubmitAttempted == op.name = "submit_order" /\ ~Missing(op.signal.order_id)

PollPassed == op.name = "poll_execution_status" /\ ~op.query_raises

-----------------------------------------------------------------------------
(* C1 *)

SubmitSucceeded ==
    /\ SubmitAttempted
    /\ ~op.placed.raises
    /\ op.placed.id # ""
    /\ op.submitted_ok

\* C1: when place_order returns a non-empty id B for a signal with a
\* non-empty order_id and the backend accepts the status update, submit_order
\* returns true, the record is pending with status SUBMITTED and
\* broker_order_id B, the reverse index maps B to the order_id, exactly one
\* update_signal_status(order_id, {status: "submitted", qmt_order_id: B}) was
\* sent and no create_execution.
C1_SubmitSuccess ==
    SubmitSucceeded =>
        LET order_id == op.signal.order_id
            B == op.placed.id
            updates == CallsOf(calls, "update_signal_status")
        IN  /\ ret = "true"
            /\ order_id \in DOMAIN pending_executions
            /\ pending_executions[order_id].status = "SUBMITTED"
            /\ pending_executions[order_id].broker_order_id = B
            /\ B \in DOMAIN broker_to_order_map
            /\ broker_to_order_map[B] = order_id
            /\ Len(updates) = 1
            /\ updates[1].order_id = order_id
            /\ updates[1].payload.status = "submitted"
            /\ updates[1].payload.qmt_order_id = B
            /\ CallsOf(calls, "create_execution") = <<>>

\* a successful submission of a second order while another one is tracked
C1_Witness ==
    /\ SubmitSucceeded
    /\ ret = "true"
    /\ Cardinality(DOMAIN pending_executions) = 2

-----------------------------------------------------------------------------
(* C2 *)

\* C2: when place_order raises for a signal with a non-empty order_id,
\* submit_order returns false, sends exactly one
\* update_signal_status(order_id, {status: "retry_pending", retry_count,
\* last_error}) and no create_execution, and the record is pending with
\* status RETRY_PENDING and last_error the error text.
C2_SubmitFailure ==
    (SubmitAttempted /\ op.placed.raises) =>
        LET order_id == op.signal.order_id
            updates == CallsOf(calls, "update_signal_status")
        IN  /\ ret = "false"
            /\ Len(updates) = 1
            /\ updates[1].order_id = order_id
            /\ updates[1].payload.status = "retry_pending"
            /\ updates[1].payload.retry_count = pending_executions[order_id].retry_count
            /\ updates[1].payload.last_error = op.placed.error
            /\ CallsOf(calls, "create_execution") = <<>>
            /\ order_id \in DOMAIN pending_executions
            /\ pending_executions[order_id].status = "RETRY_PENDING"
            /\ pending_executions[order_id].last_error = op.placed.error

-----------------------------------------------------------------------------
(* C3 *)

\* Before a pass: order_id is tracked with the broker id of the i-th entry
\* of the pass
EntryOfTracked(order_id, i) ==
    LET B == op'.reports[i].broker_order_id
    IN  /\ order_id \in DOMAIN pending_executions
        /\ pending_executions[order_id].broker_order_id = B
        /\ B \in DOMAIN broker_to_order_map
        /\ broker_to_order_map[B] = order_id

\* the i-th entry of a pass may carry a status that maps to one of statuses:
\* an entry the pass skips is not read, so it stands for every status
EntryMayReport(i, statuses) ==
    i \in op'.handled => MapBrokerStatus(op'.reports[i]) \in statuses

\* Before a pass: order_id is tracked with the broker id of the i-th entry
\* of the pass, and that entry's status maps to FILLED
FilledEntryOfTracked(order_id, i) ==
    /\ EntryOfTracked(order_id, i)
    /\ EntryMayReport(i, {"FILLED"})

\* Before a pass: order_id is the only pending record that carries B
OnlyRecord(order_id, B) ==
    \A o \in DOMAIN pending_executions :
        pending_executions[o].broker_order_id = B => o = order_id

\* Before a pass: B is the only reverse-index entry that resolves to order_id
OnlyEntry(order_id, B) ==
    \A b \in DOMAIN broker_to_order_map :
        broker_to_order_map[b] = order_id => b = B

\* the create_execution calls of a pass for order_id with status "filled"
\* and the fill of the i-th entry
FilledExecutions(order_id, i) ==
    SelectSeq(calls', LAMBDA c :
        /\ c.fn = "create_execution"
        /\ c.order_id = order_id
        /\ c.execution.status = "filled"
        /\ c.execution.filled_size = op'.reports[i].filled_size
        /\ c.execution.filled_price = op'.reports[i].avg_price)

\* the status updates of a pass for order_id with status "filled" and executed_at
FilledUpdates(order_id) ==
    SelectSeq(calls', LAMBDA c :
        /\ c.fn = "update_signal_status"
        /\ c.order_id = order_id
        /\ c.payload.status = "filled"
        /\ "executed_at" \in DOMAIN c.payload)

Removed(order_id, B) ==
    /\ order_id \notin DOMAIN pending_executions'
    /\ B \notin DOMAIN broker_to_order_map'

\* C3 as claimed: if order O is tracked with broker id B and the broker
\* reports B with a status that maps to FILLED, filled_size n and avg_price p,
\* one pass sends exactly one create_execution with order_id O, status
\* "filled", filled_size n and filled_price p, sends a status update "filled"
\* with executed_at, and removes O and B from the two tables.
C3_PollFilled_AsClaimed ==
    [][(op'.name = "poll_execution_status" /\ ~op'.query_raises) =>
          \A i \in 1..Len(op'.reports), order_id \in OrderIds :
              FilledEntryOfTracked(order_id, i) =>
                  /\ Len(FilledExecutions(order_id, i)) = 1
                  /\ Len(FilledUpdates(order_id)) >= 1
                  /\ Removed(order_id, op'.reports[i].broker_order_id)]_vars

\* C3 (amended): if order O is tracked with broker id B, B is the only
\* reverse-index entry that resolves to O, O is the only pending record that
\* carries B, and the broker reports B with a
\* status that maps to FILLED, filled_size n and avg_price p, one pass sends
\* exactly one create_execution for O, with status "filled", filled_size n and
\* filled_price p, sends the status update "filled" with executed_at if that
\* create_execution returns and no status update for O if it raises, and
\* removes O and B from the two tables.
C3_PollFilled ==
    [][(op'.name = "poll_execution_status" /\ ~op'.query_raises) =>
          \A i \in 1..Len(op'.reports), order_id \in OrderIds :
              (/\ FilledEntryOfTracked(order_id, i)
               /\ OnlyEntry(order_id, op'.reports[i].broker_order_id)
               /\ OnlyRecord(order_id, op'.reports[i].broker_order_id)) =>
                  /\ i \in op'.handled
                  /\ Len(FilledExecutions(order_id, i)) = 1
                  /\ Len(CallsFor(calls', "create_execution", order_id)) = 1
                  /\ IF op'.outcomes[i] = "ok"
                     THEN /\ Len(FilledUpdates(order_id)) = 1
                          /\ Len(CallsFor(calls', "update_signal_status", order_id)) = 1
                     ELSE CallsFor(calls', "update_signal_status", order_id) = <<>>
                  /\ Removed(order_id, op'.reports[i].broker_order_id)]_vars

\* a pass that reported a fill to the backend, status update included, and
\* removed the record
C3_Witness ==
    /\ PollPassed
    /\ \E i \in 1..Len(op.reports) :
           /\ MapBrokerStatus(op.reports[i]) = "FILLED"
           /\ op.outcomes[i] = "ok"
           /\ op.reports[i].broker_order_id \notin DOMAIN broker_to_order_map
           /\ \E k \in 1..Len(calls) :
                  /\ calls[k].fn = "create_execution"
                  /\ calls[k].execution.status = "filled"
                  /\ calls[k].execution.broker_order_id = op.reports[i].broker_order_id
                  /\ calls[k].execution.filled_size = op.reports[i].filled_size
                  /\ calls[k].order_id \notin DOMAIN pending_executions
                  /\ k < Len(calls)
                  /\ calls[k + 1].fn = "update_signal_status"
                  /\ calls[k + 1].order_id = calls[k].order_id
                  /\ "executed_at" \in DOMAIN calls[k + 1].payload

-----------------------------------------------------------------------------
(* C4 *)

\* Before a pass: order_id was reported terminal by an earlier pass, with
\* broker id B, and the pass has an entry for B
ReportedAgain(order_id) ==
    /\ completed[order_id] \notin {"NotDone", None}
    /\ \E i \in 1..Len(op'.reports) :
           op'.reports[i].broker_order_id = completed[order_id]

\* a pass sends nothing for order_id and leaves its record and the
\* reverse-index entry of B as they were
NoEffectOn(order_id, B) ==
    /\ CallsFor(calls', "create_execution", order_id) = <<>>
    /\ CallsFor(calls', "update_signal_status", order_id) = <<>>
    /\ (order_id \in DOMAIN pending_executions')
           = (order_id \in DOMAIN pending_executions)
    /\ order_id \in DOMAIN pending_executions =>
           pending_executions'[order_id] = pending_executions[order_id]
    /\ (B \in DOMAIN broker_to_order_map') = (B \in DOMAIN broker_to_order_map)
    /\ B \in DOMAIN broker_to_order_map =>
           broker_to_order_map'[B] = broker_to_order_map[B]

\* C4: once a pass has reported an order terminal, every later pass in which
\* the broker still reports the same broker_order_id sends no
\* create_execution and no status update for that order and leaves the
\* order's entries in the pending table and the reverse index unchanged.
C4_TerminalOnce ==
    [][op'.name = "poll_execution_status" =>
          \A order_id \in OrderIds :
              ReportedAgain(order_id) =>
                  NoEffectOn(order_id, completed[order_id])]_vars

\* C4 in the runs where submit_order places every order once: once a pass
\* has reported an order terminal, and as long as no later submit_order has
\* registered its order_id or its broker_order_id again, every later pass in
\* which the broker still reports that broker_order_id sends no
\* create_execution and no status update for the order, and the order stays
\* out of the pending table and the broker id out of the reverse index.
C4_TerminalOnce_PlacedOnce ==
    [][op'.name = "poll_execution_status" =>
          \A order_id \in OrderIds :
              (ReportedAgain(order_id) /\ order_id \notin resubmitted) =>
                  /\ NoEffectOn(order_id, completed[order_id])
                  /\ order_id \notin DOMAIN pending_executions'
                  /\ completed[order_id] \notin DOMAIN broker_to_order_map']_vars

\* a pass after the one that reported an order terminal, with an entry for
\* the same broker id
C4_PlacedOnce_Witness ==
    /\ PollPassed
    /\ \E order_id \in OrderIds :
           /\ completed[order_id] \notin {"NotDone", None}
           /\ order_id \notin resubmitted
           /\ order_id \notin TerminalReported(calls)
           /\ \E i \in 1..Len(op.reports) :
                  op.reports[i].broker_order_id = completed[order_id]
           /\ order_id \notin DOMAIN pending_executions
           /\ calls = <<GetExecutionStatusCall>>

-----------------------------------------------------------------------------
(* C5 *)

\* C5: after the k-th consecutive failed submit_order for one order_id, the
\* record's retry_count is k, and so is the retry_count reported to the
\* backend.
C5_RetryCount ==
    (SubmitAttempted /\ op.placed.raises) =>
        LET order_id == op.signal.order_id
            updates == CallsOf(calls, "update_signal_status")
        IN  /\ pending_executions[order_id].retry_count = failures[order_id]
            /\ updates[1].payload.retry_count = failures[order_id]

-----------------------------------------------------------------------------
(* C6 *)

\* the internal status the contract assigns to a status text
ContractStatus(text) ==
    CASE text \in {T_filled, T_complete} -> "FILLED"
      [] text \in {T_partial, T_partially_filled} -> "PARTIAL_FILLED"
      [] text \in {T_rejected, T_failed} -> "REJECTED"
      [] text \in {T_cancelled, T_canceled} -> "CANCELLED"
      [] OTHER -> "SUBMITTED"

\* C6 as claimed: _map_broker_status maps the status strings filled and
\* complete to FILLED, partial and partially_filled to PARTIAL_FILLED,
\* rejected and failed to REJECTED, cancelled and canceled to CANCELLED, and
\* every other string, a missing status included, to SUBMITTED.
C6_StatusFidelity_AsClaimed ==
    map_out # "none" => map_out = ContractStatus(BrokerStatusGet(map_in))

\* C6 (amended): _map_broker_status maps every status string whose
\* lower-cased form is filled or complete to FILLED, partial or
\* partially_filled to PARTIAL_FILLED, rejected or failed to REJECTED,
\* cancelled or canceled to CANCELLED, and every other string, a missing
\* status included, to SUBMITTED.
C6_StatusFidelity ==
    map_out # "none" =>
        map_out = ContractStatus([i \in 1..Len(BrokerStatusGet(map_in)) |->
                                     LowerChar(BrokerStatusGet(map_in)[i])])

\* the status "Failed" was mapped to REJECTED
C6_Witness ==
    /\ map_in.has_status
    /\ map_in.status = <<"F", "a", "i", "l", "e", "d">>
    /\ map_out = "REJECTED"

-----------------------------------------------------------------------------
(* C7 *)

SyncCalled == op.name = "sync_positions"

\* the canonical symbols of the positions the broker returned in the last sync
CanonicalSymbols ==
    {BaseSymbol(op.query.positions[i].symbol) : i \in 1..Len(op.query.positions)}

\* C7: every sync_positions call that returns success, whether the broker
\* returned zero or N positions, makes exactly one cleanup_stale_positions
\* call; its current_symbols holds exactly the canonical symbols of the
\* positions returned in that call, each once (the empty list when there are
\* none), and its account_id is the manager's account_id.
C7_AlwaysCleanup ==
    (SyncCalled /\ ret = "true") =>
        LET cleanups == CallsOf(calls, "cleanup_stale_positions")
        IN  /\ Len(cleanups) = 1
            /\ Range(cleanups[1].current_symbols) = CanonicalSymbols
            /\ Len(cleanups[1].current_symbols) = Cardinality(CanonicalSymbols)
            /\ cleanups[1].account_id = account_id

\* a successful sync of two positions with distinct canonical symbols, for a
\* manager that has an account_id
C7_Witness ==
    /\ SyncCalled
    /\ ret = "true"
    /\ Len(op.query.positions) = 2
    /\ Cardinality(CanonicalSymbols) = 2
    /\ account_id # None
    /\ calls[Len(calls)].fn = "cleanup_stale_positions"

-----------------------------------------------------------------------------
(* C8 *)

Skipped == calls = <<>> /\ ret = "false"

\* the call before the last one queried the broker
EarlierPerformed == prev_sync.called # NoneNum /\ prev_sync.performed = prev_sync.called

\* C8 as claimed: of two sync_positions calls made less than sync_interval
\* apart, at most one queries the broker and pushes to the backend, and the
\* later one returns the skip result without calling the broker or the
\* backend, whether or not the earlier one succeeded.
C8_RateLimit_AsClaimed ==
    (SyncCalled /\ prev_sync.called # NoneNum
                /\ op.time - prev_sync.called < sync_interval) =>
        /\ ~(EarlierPerformed /\ calls # <<>>)
        /\ Skipped

\* C8 (amended): of two sync_positions calls made less than sync_interval
\* apart, at most one queries the broker and pushes to the backend; if the
\* earlier one was not itself skipped, the later one returns the skip result
\* without calling the broker or the backend, whether or not the earlier one
\* succeeded.
C8_RateLimit ==
    /\ (SyncCalled /\ prev_sync.called # NoneNum
                   /\ op.time - prev_sync.called < sync_interval) =>
           ~(EarlierPerformed /\ calls # <<>>)
    /\ (SyncCalled /\ prev_sync.performed # NoneNum
                   /\ op.time - prev_sync.performed < sync_interval) =>
           Skipped

\* a call skipped one tick before the interval has elapsed since a sync that
\* queried the broker and failed
C8_Witness ==
    /\ SyncCalled
    /\ prev_sync.performed # NoneNum
    /\ ~prev_sync.succeeded
    /\ op.time - prev_sync.performed = sync_interval - 1
    /\ Skipped

-----------------------------------------------------------------------------
(* C9 *)

\* base is the text of symbol before its first '.', or symbol when it has none
BeforeFirstDot(base, symbol) ==
    IF \E k \in 1..Len(symbol) : symbol[k] = "."
    THEN \E k \in 1..Len(symbol) :
             /\ symbol[k] = "."
             /\ \A j \in 1..(k - 1) : symbol[j] # "."
             /\ base = [j \in 1..(k - 1) |-> symbol[j]]
    ELSE base = symbol

\* C9: for every broker symbol, the symbol of the position document pushed
\* to the backend is the text before the first '.' when the symbol has a
\* '.', and the symbol itself otherwise.
C9_Canonical ==
    SyncCalled =>
        \A k \in 1..Len(calls) :
            calls[k].fn = "sync_positions" =>
                /\ Len(calls[k].positions) = Len(op.query.positions)
                /\ \A i \in 1..Len(calls[k].positions) :
                       BeforeFirstDot(calls[k].positions[i].symbol,
                                      op.query.positions[i].symbol)

\* a push of the documents of "A.B.C" and "002050.SZ"
C9_Witness ==
    /\ SyncCalled
    /\ Len(calls) >= 2
    /\ calls[2].fn = "sync_positions"
    /\ Len(calls[2].positions) = 2
    /\ op.query.positions[1].symbol = S_A_B_C
    /\ calls[2].positions[1].symbol = <<"A">>
    /\ op.query.positions[2].symbol = S_002050_SZ
    /\ calls[2].positions[2].symbol = <<"0", "0", "2", "0", "5", "0">>

-----------------------------------------------------------------------------
(* C10 *)

\* the positions in calls of the calls to fn
IndexesOf(fn) == {k \in 1..Len(calls) : calls[k].fn = fn}

\* C10: in a sync_positions call with a non-empty broker result, all
\* position documents are pushed in exactly one batched sync_positions
\* backend call, the cleanup call is issued only after that push has
\* returned, and no cleanup call is made if the push raises.
C10_BatchedPush ==
    (SyncCalled /\ calls # <<>> /\ ~op.query.raises /\ op.query.positions # <<>>) =>
        /\ Cardinality(IndexesOf("sync_positions")) = 1
        /\ \A k \in IndexesOf("sync_positions") :
               /\ Len(calls[k].positions) = Len(op.query.positions)
               /\ \A c \in IndexesOf("cleanup_stale_positions") : k < c /\ op.push_ok
        /\ ~op.push_ok => IndexesOf("cleanup_stale_positions") = {}

\* a sync of two positions whose push returned and was followed by the cleanup
C10_Witness ==
    /\ SyncCalled
    /\ Len(op.query.positions) = 2
    /\ op.push_ok
    /\ Len(calls) = 3
    /\ calls[2].fn = "sync_positions"
    /\ Len(calls[2].positions) = 2
    /\ calls[3].fn = "cleanup_stale_positions"

-----------------------------------------------------------------------------
(* C11 *)

\* C11: for a signal whose order_id is missing or empty, neither
\* _handle_signal nor submit_order calls the broker or the backend or creates
\* a record: the pending table and the reverse index are unchanged,
\* submit_order returns false, and no record and no retry_pending report
\* exists for the signal.
C11_MalformedSignal ==
    [][(op'.name \in {"submit_order", "_handle_signal"} /\ Missing(op'.signal.order_id)) =>
          /\ calls' = <<>>
          /\ pending_executions' = pending_executions
          /\ broker_to_order_map' = broker_to_order_map
          /\ op'.name = "submit_order" => ret' = "false"
          /\ \A order_id \in DOMAIN pending_executions' : ~Missing(order_id)]_vars

\* a signal without order_id was handed to a driver that has no tracker
C11_Witness ==
    /\ op.name = "_handle_signal"
    /\ op.signal.order_id = None
    /\ ~execution_tracking
    /\ calls = <<>>
    /\ ret = "none"

-----------------------------------------------------------------------------
(* C12 *)

\* C12: when place_order returns an empty broker order id without raising,
\* submit_order treats it like a failed submission: it returns false, the
\* record is in the pending table with status RETRY_PENDING, an incremented
\* retry_count and a last_error, and status "retry_pending" is reported to
\* the backend.
C12_EmptyBrokerId ==
    (SubmitAttempted /\ ~op.placed.raises /\ op.placed.id = "") =>
        LET order_id == op.signal.order_id
            updates == CallsFor(calls, "update_signal_status", order_id)
        IN  /\ ret = "false"
            /\ order_id \in DOMAIN pending_executions
            /\ pending_executions[order_id].status = "RETRY_PENDING"
            /\ pending_executions[order_id].retry_count >= 1
            /\ pending_executions[order_id].last_error # None
            /\ Len(updates) = 1
            /\ updates[1].payload.status = "retry_pending"

-----------------------------------------------------------------------------
(* C13 *)

\* C13: submit_order never propagates an exception to its caller; whenever
\* place_order raises it returns false, also when the backend call that
\* reports retry_pending fails.
C13_NeverPropagates ==
    op.name = "submit_order" =>
        /\ ret \in {"true", "false"}
        /\ (~Missing(op.signal.order_id) /\ op.placed.raises) => ret = "false"

-----------------------------------------------------------------------------
(* C14 *)

\* C14: if place_order returns id B but the backend update
\* update_signal_status("submitted") raises, the record stays in the pending
\* table with status SUBMITTED and broker_order_id B and its retry_count is
\* not incremented.
C14_NotRolledBack ==
    (SubmitAttempted /\ ~op.placed.raises /\ op.placed.id # "" /\ ~op.submitted_ok) =>
        LET order_id == op.signal.order_id
        IN  /\ order_id \in DOMAIN pending_executions
            /\ pending_executions[order_id].status = "SUBMITTED"
            /\ pending_executions[order_id].broker_order_id = op.placed.id
            /\ pending_executions[order_id].retry_count = 0

-----------------------------------------------------------------------------
(* C15 *)

\* the order ids of the create_execution calls in `sent`, in order
CreatedFor(sent) ==
    [k \in 1..Len(CallsOf(sent, "create_execution")) |->
        CallsOf(sent, "create_execution")[k].order_id]

\* the pass over `reports` from state st when no backend call fails
UndisturbedPass(st, reports) ==
    PollExecutionStatusResult(st, FALSE, reports, [i \in 1..Len(reports) |-> "ok"])

\* C15: when create_execution or update_signal_status raises for entries of
\* a polling pass, the pass does not raise and still processes every
\* broker-reported tracked order: it reports to the backend the same orders in
\* the same sequence, and leaves the same tables, as the pass in which no
\* backend call fails.
C15_ContinueOnError ==
    [][(op'.name = "poll_execution_status" /\ ~op'.query_raises) =>
          /\ ret' = "none"
          /\ Len(CallsOf(calls', "create_execution")) =
                 Cardinality(HandledEntries(op'.reports))
          /\ CreatedFor(calls') = CreatedFor(UndisturbedPass(TrackerState, op'.reports).calls)
          /\ pending_executions' = UndisturbedPass(TrackerState, op'.reports).pending
          /\ broker_to_order_map' = UndisturbedPass(TrackerState, op'.reports).reverse]_vars

\* a pass met a failing update_signal_status for its first entry and a failing
\* create_execution for its second, and reported both orders
C15_Witness ==
    /\ op.name = "poll_execution_status"
    /\ ~op.query_raises
    /\ op.outcomes = <<"update_raises", "create_raises">>
    /\ Len(CallsOf(calls, "create_execution")) = 2
    /\ CreatedFor(calls)[1] # CreatedFor(calls)[2]
    /\ ret = "none"

-----------------------------------------------------------------------------
(* C16 *)

\* the order that the i-th entry of the last pass was handled for
HandledFor(i) ==
    CreatedFor(calls)[Cardinality({j \in op.handled : j <= i})]

\* the last pass handled an entry for order_id with this backend outcome and
\* a status in `statuses`
PassReported(order_id, outcomes, statuses) ==
    /\ PollPassed
    /\ \E i \in op.handled :
           /\ HandledFor(i) = order_id
           /\ op.outcomes[i] \in outcomes
           /\ MapBrokerStatus(op.reports[i]) \in statuses

\* C16: when reporting an order to the backend fails during a polling pass,
\* also when the failed report is the one of the terminal status, a later pass
\* delivers a report of the order to the backend, once the backend is
\* reachable again and the broker keeps reporting the order.
C16_Convergence ==
    \A order_id \in OrderIds :
        PassReported(order_id, {"create_raises", "update_raises"}, ExecutionStatus)
            ~> PassReported(order_id, {"ok"}, ExecutionStatus)

\* What holds: a failed report of a status that is not terminal is followed by
\* a delivered report of the order, whose record is still tracked.
C16_Convergence_NonTerminal ==
    \A order_id \in OrderIds :
        PassReported(order_id, {"create_raises", "update_raises"},
                     ExecutionStatus \ TerminalStatuses)
            ~> PassReported(order_id, {"ok"}, ExecutionStatus)

\* a terminal report failed and its record is no longer tracked
C16_Lost ==
    \E order_id \in OrderIds :
        /\ PassReported(order_id, {"create_raises", "update_raises"}, TerminalStatuses)
        /\ order_id \notin DOMAIN pending_executions

-----------------------------------------------------------------------------
(* C17 *)

\* C17: after every completed submit_order or poll_execution_status call no
\* record of the pending table has a terminal status, so that
\* get_execution_status returns no terminal status and get_pending_count is
\* the number of records that are not terminal.
C17_NoTerminalPending ==
    /\ \A order_id \in DOMAIN pending_executions :
           pending_executions[order_id].status \notin TerminalStatuses
    /\ \A order_id \in OrderIds \cup {"", None} :
           GetExecutionStatus(TrackerState, order_id) \notin TerminalStatuses
    /\ GetPendingCount(TrackerState) =
           Cardinality({order_id \in DOMAIN pending_executions :
               pending_executions[order_id].status \notin TerminalStatuses})

\* a pass reported a terminal status for one order while another is tracked
C17_Witness ==
    /\ PollPassed
    /\ TerminalReported(calls) # {}
    /\ GetPendingCount(TrackerState) = 1

-----------------------------------------------------------------------------
(* C18 *)

\* C18: filled_size <= size holds for every record of the pending table and
\* in every execution report sent to the backend, whatever filled_size the
\* broker reports.
C18_FilledWithinSize ==
    /\ \A order_id \in DOMAIN pending_executions :
           pending_executions[order_id].filled_size <= pending_executions[order_id].size
    /\ \A k \in 1..Len(CallsOf(calls, "create_execution")) :
           CallsOf(calls, "create_execution")[k].execution.filled_size
               <= CallsOf(calls, "create_execution")[k].execution.size

-----------------------------------------------------------------------------
(* C19 *)

SubmittedOrLater == {"SUBMITTED", "PARTIAL_FILLED"} \cup TerminalStatuses

\* C19: a record of the pending table has a broker_order_id if and only if
\* its status is SUBMITTED, PARTIAL_FILLED or terminal; a PENDING or
\* RETRY_PENDING record has none.
C19_BrokerIdIffSubmitted ==
    \A order_id \in DOMAIN pending_executions :
        pending_executions[order_id].broker_order_id # None
            <=> pending_executions[order_id].status \in SubmittedOrLater

-----------------------------------------------------------------------------
(* C20 *)

\* C20: after any sequence of submit_order and poll_execution_status calls
\* the reverse index maps B to O exactly when the pending table has a record
\* for O whose broker_order_id is B.
C20_TablesAgree ==
    \A broker_order_id \in BrokerIds \cup DOMAIN broker_to_order_map,
       order_id \in OrderIds \cup DOMAIN pending_executions :
        (/\ broker_order_id \in DOMAIN broker_to_order_map
         /\ broker_to_order_map[broker_order_id] = order_id)
            <=> (/\ order_id \in DOMAIN pending_executions
                 /\ pending_executions[order_id].broker_order_id = broker_order_id)

-----------------------------------------------------------------------------
(* C21 *)

\* C21: a signal whose placement keeps failing is given up: once its
\* consecutive failed submissions exceed max_retries its record has become
\* FAILED and has left the pending table.
C21_RetryCap ==
    \A order_id \in OrderIds :
        failures[order_id] > max_retries => order_id \notin DOMAIN pending_executions

-----------------------------------------------------------------------------
(* C22 *)

\* a step of the current iteration raises
StepRaises == iteration.raised_in = "none" /\ iteration'.raised_in # "none"

\* C22: an exception raised by a step of an iteration (sync, signal fetch,
\* signal handling, polling) is caught within the iteration: the thread goes to
\* the sleep, run_forever ends only after stop(), and after the sleep the next
\* iteration starts unless stop() has been called.
C22_IterationCatches ==
    /\ [](pc \in {"finally", "returned", "raised"} => _stop)
    /\ [][/\ StepRaises => (pc \in IterationSteps /\ pc' = "sleep")
          /\ (pc = "sleep" /\ pc' # pc) => pc' = "while"
          /\ (pc = "while" /\ pc' # pc /\ ~_stop) =>
                 (pc' = "sync" /\ iteration'.raised_in = "none")]_vars

\* an iteration runs after one that an exception ended
C22_Witness ==
    /\ pc = "handle"
    /\ iteration.previous_raised
    /\ ~_stop

-----------------------------------------------------------------------------
(* C23 *)

\* run_forever has ended
Ended == pc \in {"returned", "raised"}

\* C23: after stop() run_forever starts no new iteration and ends, and
\* broker.close() is called exactly once, after the last iteration and before
\* run_forever returns.
C23_StopCloses ==
    /\ [][(pc' = "sync" /\ pc # "sync") => ~_stop]_vars
    /\ [](closes = (IF Ended THEN 1 ELSE 0))
    /\ [][closes' # closes => (pc = "finally" /\ Ended')]_vars
    /\ (_stop /\ pc # "not_started") ~> Ended

\* stop() was called during an iteration and run_forever has returned
C23_Witness ==
    /\ pc = "returned"
    /\ iteration.stopped_in = "handle"
    /\ closes = 1

-----------------------------------------------------------------------------
(* C24 *)

\* stop() was called during the iteration that has just reached its sleep
StoppedIterationDone == pc = "sleep" /\ iteration.stopped_in # "none"

\* C24 as stated: an iteration during which stop() is called handles every
\* fetched signal and runs poll_execution_status.
C24_StopMidIteration_AsClaimed ==
    StoppedIterationDone =>
        /\ iteration.fetched # NoneNum
        /\ iteration.handled = iteration.fetched
        /\ iteration.polled

\* C24: an iteration during which stop() is called performs the steps it
\* would perform otherwise: unless an exception of a step ends it, every
\* fetched signal is handled and poll_execution_status runs when execution
\* tracking is enabled.  The flag is read at the loop condition only: a step
\* of the iteration is followed by the sleep only after the poll or an
\* exception, and the loop is left from the loop condition only.
C24_StopMidIteration ==
    /\ [](StoppedIterationDone /\ iteration.raised_in = "none" =>
            /\ iteration.fetched # NoneNum
            /\ iteration.handled = iteration.fetched
            /\ iteration.polled = execution_tracking)
    /\ [][(pc \in IterationSteps /\ pc' # pc) =>
             /\ pc' \in IterationSteps \cup {"sleep"}
             /\ pc' = "sleep" => (pc = "poll" \/ StepRaises)]_vars
    /\ [][pc' = "finally" => pc = "while"]_vars

\* stop() was called while the first of two signals was handled; the second
\* was handled and the poll ran
C24_Witness ==
    /\ StoppedIterationDone
    /\ iteration.stopped_in = "handle"
    /\ iteration.raised_in = "none"
    /\ iteration.fetched = 2
    /\ iteration.handled = 2
    /\ iteration.polled

-----------------------------------------------------------------------------
(* C25 *)

\* _handle_signal was called without a tracker for a signal with an order_id
LegacyHandled ==
    /\ op.name = "_handle_signal"
    /\ ~execution_tracking
    /\ ~Missing(op.signal.order_id)

\* the calls of the three steps, with the filled_price that is expected
LegacySteps(filled_price) ==
    <<[fn |-> "place_order", order_id |-> op.signal.order_id],
      [fn |-> "update_signal_status", order_id |-> op.signal.order_id,
       payload |-> [status |-> "submitted", qmt_order_id |-> op.placed.id]],
      [fn |-> "create_execution", order_id |-> op.signal.order_id,
       execution |-> [order_id |-> op.signal.order_id,
                      size |-> op.signal.size,
                      target_price |-> op.signal.price,
                      filled_price |-> filled_price,
                      filled_size |-> IF op.signal.size = NoneNum THEN 0 ELSE op.signal.size,
                      status |-> "filled",
                      qmt_order_id |-> op.placed.id]]>>

\* the number of steps made: up to and with the first that raises
LegacyStepsMade ==
    IF op.placed.raises THEN 1 ELSE IF ~op.submitted_ok THEN 2 ELSE 3

LegacyFailed == op.placed.raises \/ ~op.submitted_ok \/ ~op.create_ok

\* the calls that the claim describes, given the expected filled_price
LegacyAsDescribed(filled_price) ==
    /\ ret = "none"
    /\ SubSeq(calls, 1, LegacyStepsMade) = SubSeq(LegacySteps(filled_price), 1, LegacyStepsMade)
    /\ IF LegacyFailed
       THEN /\ Len(calls) = LegacyStepsMade + 1
            /\ calls[Len(calls)] =
                   [fn |-> "update_signal_status", order_id |-> op.signal.order_id,
                    payload |-> [status |-> "retry_pending",
                                 last_error |-> IF op.placed.raises
                                                THEN BrokerError ELSE BackendError]]
       ELSE Len(calls) = 3

\* C25 as stated: filled_price is the signal's price, 100.0 when it is absent
C25_LegacyPath_AsClaimed ==
    LegacyHandled =>
        LegacyAsDescribed(IF op.signal.price = NoneNum THEN 10000 ELSE op.signal.price)

\* C25: without a tracker _handle_signal places the order, reports
\* "submitted" with qmt_order_id, then creates one execution with status
\* "filled", filled_size the signal's size (0 when absent) and filled_price
\* the signal's price, 100.0 when the price is absent or zero; when a step
\* raises, one "retry_pending" update with the error text follows and nothing
\* is propagated.
C25_LegacyPath ==
    LegacyHandled =>
        LegacyAsDescribed(IF op.signal.price \in {NoneNum, 0} THEN 10000 ELSE op.signal.price)

\* a signal without price and size was placed and reported filled
C25_Witness ==
    /\ LegacyHandled
    /\ ~LegacyFailed
    /\ op.signal.price = NoneNum
    /\ op.signal.size = NoneNum
    /\ Len(calls) = 3
    /\ calls[3].execution.filled_price = 10000

-----------------------------------------------------------------------------
(* C26 *)

\* a call that sync_positions made did not return
SyncCallFailed ==
    /\ calls # <<>>
    /\ \/ op.query.raises
       \/ ~op.push_ok
       \/ ~op.cleanup_ok

\* C26: sync_positions never raises; when the position query, the batch push
\* or the cleanup call raises, it returns false.
C26_SyncNeverRaises ==
    op.name = "sync_positions" =>
        /\ ret \in {"true", "false"}
        /\ SyncCallFailed => ret = "false"

\* the cleanup call raised after the batch push
C26_Witness ==
    /\ op.name = "sync_positions"
    /\ ~op.cleanup_ok
    /\ Len(calls) = 3
    /\ calls[3].fn = "cleanup_stale_positions"
    /\ ret = "false"

-----------------------------------------------------------------------------
(* C27 *)

\* the next operation is a sync_account call that queries the broker
AccountQueried == op'.name = "sync_account" /\ calls' # <<>>

\* C27: sync_account never raises; when the broker returns account data that
\* is not empty, the cache is replaced by it and it is returned, also when the
\* backend push raises or reports non-success; when the broker returns empty
\* data or raises, the cache is unchanged and the cached snapshot is returned.
C27_AccountCache ==
    [][/\ op'.name = "sync_account" => ret' # "raised"
       /\ (AccountQueried /\ ~op'.query.raises /\ op'.query.data # "empty") =>
              /\ account_info_cache' = op'.query.data
              /\ ret' = op'.query.data
       /\ (AccountQueried /\ (op'.query.raises \/ op'.query.data = "empty")) =>
              /\ account_info_cache' = account_info_cache
              /\ ret' = account_info_cache]_vars

\* the push raised and the new snapshot replaced the cached one
C27_Witness ==
    /\ op.name = "sync_account"
    /\ op.push = "raises"
    /\ op.query.data = "SNAPSHOT_2"
    /\ account_info_cache = "SNAPSHOT_2"
    /\ ret = "SNAPSHOT_2"
    /\ prev_account.performed # NoneNum

-----------------------------------------------------------------------------
(* C28 *)

\* C28: of two sync_account(force=false) calls made less than sync_interval
\* apart, at most one queries the broker and pushes to the backend, and the
\* later one returns the cached snapshot without calling the broker.
C28_AccountRateLimit ==
    (/\ op.name = "sync_account"
     /\ ~op.force
     /\ prev_account.called # NoneNum
     /\ ~prev_account.force
     /\ op.time - prev_account.called < sync_interval) =>
        /\ ~(prev_account.performed = prev_account.called /\ calls # <<>>)
        /\ calls = <<>>
        /\ ret = account_info_cache

-----------------------------------------------------------------------------
(* C29 *)

\* the create_execution calls of a pass for order_id with status
\* "partial_filled" and the fill of the i-th entry
PartialExecutions(order_id, i) ==
    SelectSeq(calls', LAMBDA c :
        /\ c.fn = "create_execution"
        /\ c.order_id = order_id
        /\ c.execution.status = "partial_filled"
        /\ c.execution.filled_size = op'.reports[i].filled_size
        /\ c.execution.filled_price = op'.reports[i].avg_price)

\* the status updates of a pass for order_id with status "partial_filled"
\* and without executed_at
PartialUpdates(order_id) ==
    SelectSeq(calls', LAMBDA c :
        /\ c.fn = "update_signal_status"
        /\ c.order_id = order_id
        /\ c.payload.status = "partial_filled"
        /\ "executed_at" \notin DOMAIN c.payload)

\* After a pass: the record of order_id is PARTIAL_FILLED with the fill of the
\* i-th entry, and both tables still hold it
KeptPartial(order_id, i) ==
    LET B == op'.reports[i].broker_order_id
    IN  /\ order_id \in DOMAIN pending_executions'
        /\ pending_executions'[order_id].status = "PARTIAL_FILLED"
        /\ pending_executions'[order_id].filled_size = op'.reports[i].filled_size
        /\ pending_executions'[order_id].filled_price = op'.reports[i].avg_price
        /\ pending_executions'[order_id].broker_order_id = B
        /\ B \in DOMAIN broker_to_order_map'
        /\ broker_to_order_map'[B] = order_id

\* C29 as claimed: when the broker reports a tracked order with a status that
\* maps to PARTIAL_FILLED, a pass sets the record to PARTIAL_FILLED, sends an
\* execution report "partial_filled" with the broker's filled_size and
\* avg_price, sends a status update without executed_at, and keeps the record
\* and its reverse-index entry; a pass in which the broker reports a
\* PARTIAL_FILLED record filled reports it "filled" and removes it.
C29_PartialFill_AsClaimed ==
    [][(op'.name = "poll_execution_status" /\ ~op'.query_raises) =>
          \A i \in 1..Len(op'.reports), order_id \in OrderIds :
              /\ (/\ EntryOfTracked(order_id, i)
                  /\ EntryMayReport(i, {"PARTIAL_FILLED"})) =>
                      /\ Len(PartialExecutions(order_id, i)) = 1
                      /\ Len(PartialUpdates(order_id)) >= 1
                      /\ KeptPartial(order_id, i)
              /\ (/\ FilledEntryOfTracked(order_id, i)
                  /\ pending_executions[order_id].status = "PARTIAL_FILLED") =>
                      /\ Len(FilledExecutions(order_id, i)) = 1
                      /\ Removed(order_id, op'.reports[i].broker_order_id)]_vars

\* C29 (amended): if order O is tracked with broker id B, B is the only
\* reverse-index entry that resolves to O and O is the only pending record
\* that carries B, then a pass in which the broker reports B with a status
\* that maps to PARTIAL_FILLED sets the record to PARTIAL_FILLED with the
\* broker's filled_size and avg_price, sends exactly one create_execution for
\* O, with status "partial_filled" and those two values, sends one status
\* update "partial_filled" without executed_at if that create_execution
\* returns and no status update for O if it raises, and keeps the record and
\* its reverse-index entry; a pass in which the broker reports B filled while
\* the record is PARTIAL_FILLED sends one create_execution "filled" for O and
\* removes O and B from the two tables.
C29_PartialFill ==
    [][(op'.name = "poll_execution_status" /\ ~op'.query_raises) =>
          \A i \in 1..Len(op'.reports), order_id \in OrderIds :
              (/\ EntryOfTracked(order_id, i)
               /\ OnlyEntry(order_id, op'.reports[i].broker_order_id)
               /\ OnlyRecord(order_id, op'.reports[i].broker_order_id)) =>
                  /\ i \in op'.handled
                  /\ MapBrokerStatus(op'.reports[i]) = "PARTIAL_FILLED" =>
                         /\ Len(PartialExecutions(order_id, i)) = 1
                         /\ Len(CallsFor(calls', "create_execution", order_id)) = 1
                         /\ IF op'.outcomes[i] = "create_raises"
                            THEN CallsFor(calls', "update_signal_status", order_id) = <<>>
                            ELSE /\ Len(PartialUpdates(order_id)) = 1
                                 /\ Len(CallsFor(calls', "update_signal_status", order_id)) = 1
                         /\ KeptPartial(order_id, i)
                  /\ (/\ MapBrokerStatus(op'.reports[i]) = "FILLED"
                      /\ pending_executions[order_id].status = "PARTIAL_FILLED") =>
                         /\ Len(FilledExecutions(order_id, i)) = 1
                         /\ Len(CallsFor(calls', "create_execution", order_id)) = 1
                         /\ Removed(order_id, op'.reports[i].broker_order_id)]_vars

\* a pass that reported a partial fill to the backend, status update
\* included, and kept the record and its reverse-index entry
C29_Witness ==
    /\ PollPassed
    /\ \E i \in op.handled :
           LET B == op.reports[i].broker_order_id
           IN  /\ MapBrokerStatus(op.reports[i]) = "PARTIAL_FILLED"
               /\ op.outcomes[i] = "ok"
               /\ B \in DOMAIN broker_to_order_map
               /\ broker_to_order_map[B] \in DOMAIN pending_executions
               /\ pending_executions[broker_to_order_map[B]].status = "PARTIAL_FILLED"
               /\ pending_executions[broker_to_order_map[B]].filled_size = op.reports[i].filled_size
               /\ \E k \in 1..Len(calls) :
                      /\ calls[k].fn = "create_execution"
                      /\ calls[k].order_id = broker_to_order_map[B]
                      /\ calls[k].execution.status = "partial_filled"
                      /\ calls[k].execution.filled_size = op.reports[i].filled_size
                      /\ k < Len(calls)
                      /\ calls[k + 1].fn = "update_signal_status"
                      /\ calls[k + 1].order_id = calls[k].order_id
                      /\ calls[k + 1].payload.status = "partial_filled"
                      /\ "executed_at" \notin DOMAIN calls[k + 1].payload

-----------------------------------------------------------------------------
(* C30 *)

\* Before a pass: the broker id of the i-th entry is absent from the reverse
\* index
UnknownEntry(i) ==
    op'.reports[i].broker_order_id \notin DOMAIN broker_to_order_map

\* Before a pass: no entry of the pass with a broker id of the reverse index
\* resolves to order_id
NoKnownEntryFor(order_id) ==
    \A i \in 1..Len(op'.reports) :
        ~UnknownEntry(i) =>
            broker_to_order_map[op'.reports[i].broker_order_id] # order_id

\* the record of order_id is the same before and after the step
SameRecord(order_id) ==
    /\ (order_id \in DOMAIN pending_executions) <=> (order_id \in DOMAIN pending_executions')
    /\ order_id \in DOMAIN pending_executions =>
           pending_executions'[order_id] = pending_executions[order_id]

\* the backend calls of the pass
BackendCalls ==
    SelectSeq(calls', LAMBDA c : c.fn \in {"create_execution", "update_signal_status"})

\* C30: a pass handles no entry whose broker_order_id is absent from the
\* reverse index: it makes one create_execution per entry whose broker id the
\* index resolves and no other, it makes no backend call for and leaves
\* unchanged the record of every order that no such entry resolves to, every
\* reverse-index entry it removes is the broker id of a record such an entry
\* resolves to, and a pass whose entries are all unknown makes no backend
\* call and changes neither table.
C30_UnknownIgnored ==
    [][(op'.name = "poll_execution_status" /\ ~op'.query_raises) =>
          /\ \A i \in 1..Len(op'.reports) : UnknownEntry(i) => i \notin op'.handled
          /\ Len(CallsOf(calls', "create_execution")) = Cardinality(op'.handled)
          /\ \A order_id \in OrderIds :
                 NoKnownEntryFor(order_id) =>
                     /\ SameRecord(order_id)
                     /\ CallsFor(calls', "create_execution", order_id) = <<>>
                     /\ CallsFor(calls', "update_signal_status", order_id) = <<>>
          /\ \A b \in DOMAIN broker_to_order_map :
                 \/ /\ b \in DOMAIN broker_to_order_map'
                    /\ broker_to_order_map'[b] = broker_to_order_map[b]
                 \/ \E order_id \in DOMAIN pending_executions :
                        /\ pending_executions[order_id].broker_order_id = b
                        /\ ~NoKnownEntryFor(order_id)
          /\ DOMAIN broker_to_order_map' \subseteq DOMAIN broker_to_order_map
          /\ (\A i \in 1..Len(op'.reports) : UnknownEntry(i)) =>
                 /\ BackendCalls = <<>>
                 /\ UNCHANGED trackerVars]_vars

\* a pass with a pending record whose broker id was reported while the
\* reverse index does not hold it: the pass called only the broker and the
\* record is as submitted
C30_Witness ==
    /\ PollPassed
    /\ op.handled = {}
    /\ calls = <<GetExecutionStatusCall>>
    /\ \E i \in 1..Len(op.reports), order_id \in DOMAIN pending_executions :
           /\ op.reports[i].broker_order_id \notin DOMAIN broker_to_order_map
           /\ pending_executions[order_id].broker_order_id = op.reports[i].broker_order_id
           /\ pending_executions[order_id].status = "SUBMITTED"
           /\ pending_executions[order_id].filled_size = 0

-----------------------------------------------------------------------------
(* C31 *)

CleanupCalled == op.name = "cleanup_stale_positions"

\* C31: cleanup_stale_positions(symbols, account_id) issues exactly one
\* request, a DELETE to /trader/positions/cleanup whose payload has
\* current_symbols equal to the given list (order and duplicates kept, the
\* empty list included) and securities_account_id equal to account_id
\* (null included); it returns the response body, and an HTTP or network
\* error reaches the caller after that one request.
C31_CleanupRequest ==
    CleanupCalled =>
        /\ Len(calls) = 1
        /\ calls[1].fn = "requests.request"
        /\ calls[1].method = "DELETE"
        /\ calls[1].endpoint = "/trader/positions/cleanup"
        /\ calls[1].json.current_symbols = op.symbols
        /\ calls[1].json.securities_account_id = op.account_id
        /\ DOMAIN calls[1].json = {"current_symbols", "securities_account_id"}
        /\ ret = IF op.outcome = "ok" THEN op.body ELSE RaisedError(op.outcome)

\* a cleanup of a list with a duplicate symbol, not in sorted order, for the
\* null account, whose response body was returned
C31_Witness ==
    /\ CleanupCalled
    /\ op.symbols = <<"600000.SH", "300001.SZ", "600000.SH">>
    /\ op.account_id = None
    /\ op.outcome = "ok"
    /\ ret = [success |-> TRUE, deleted_count |-> 2]
    /\ calls[1].json.current_symbols = <<"600000.SH", "300001.SZ", "600000.SH">>

-----------------------------------------------------------------------------
(* C32 *)

\* the try block of the current iteration is over
IterationOver == pc = "sleep" /\ iteration.started

-----------------------------------------------------------------------------
(* C33 *)

\* Before a call: the broker accepted a placement for order_id, whose record
\* carries the broker's id
PlacementAccepted(order_id) ==
    /\ order_id \in DOMAIN pending_executions
    /\ pending_executions[order_id].broker_order_id # None

\* C33: once place_order has succeeded for an order_id, no later
\* submit_order call for the same order_id calls place_order again, also
\* when the "submitted" status update had failed.
C33_AtMostOnePlacement ==
    [][(/\ op'.name = "submit_order"
        /\ ~Missing(op'.signal.order_id)
        /\ PlacementAccepted(op'.signal.order_id)) =>
           CallsOf(calls', "place_order") = <<>>]_vars

-----------------------------------------------------------------------------
(* C34 *)

\* the position of a status along
\* PENDING/RETRY_PENDING -> SUBMITTED -> PARTIAL_FILLED -> terminal
StatusRank(status) ==
    IF status \in {"PENDING", "RETRY_PENDING"} THEN 0
    ELSE IF status = "SUBMITTED" THEN 1
    ELSE IF status = "PARTIAL_FILLED" THEN 2
    ELSE 3

\* C34: the status of the record kept for an order_id never moves backwards
\* along PENDING/RETRY_PENDING -> SUBMITTED -> PARTIAL_FILLED -> terminal,
\* whatever submit_order or poll_execution_status call is made.
C34_NoRegression ==
    [][\A order_id \in DOMAIN pending_executions \cap DOMAIN pending_executions' :
           StatusRank(pending_executions'[order_id].status)
               >= StatusRank(pending_executions[order_id].status)]_vars

\* C34, the part about one kind of call: submit_order alone moves no record
\* backwards
C34_NoRegression_Submit ==
    [][op'.name = "submit_order" =>
          \A order_id \in DOMAIN pending_executions \cap DOMAIN pending_executions' :
              StatusRank(pending_executions'[order_id].status)
                  >= StatusRank(pending_executions[order_id].status)]_vars

\* and poll_execution_status alone moves no record backwards
C34_NoRegression_Poll ==
    [][op'.name = "poll_execution_status" =>
          \A order_id \in DOMAIN pending_executions \cap DOMAIN pending_executions' :
              StatusRank(pending_executions'[order_id].status)
                  >= StatusRank(pending_executions[order_id].status)]_vars

-----------------------------------------------------------------------------
(* C35 *)

\* the cleanup calls of the last operation that delete every backend position
EmptyCleanups ==
    SelectSeq(calls, LAMBDA c :
        c.fn = "cleanup_stale_positions" /\ c.current_symbols = <<>>)

\* C35: sync_positions sends a cleanup call with an empty current_symbols
\* list only when the broker account holds no positions; a broker that is
\* disconnected, whose query failed or that does not support the query
\* causes no such call.
C35_EmptyCleanupOnlyWhenEmpty ==
    (op.name = "sync_positions" /\ EmptyCleanups # <<>>) => op.holdings = <<>>

-----------------------------------------------------------------------------
(* C36 *)

\* the k-th call of `sent` is the last execution report of the pass for its
\* order, it reports a non-terminal status, and create_execution returned
\* (the status update follows it)
LastDelivered(sent, k) ==
    /\ sent[k].fn = "create_execution"
    /\ sent[k].execution.status \notin TerminalValues
    /\ k < Len(sent)
    /\ sent[k + 1].fn = "update_signal_status"
    /\ sent[k + 1].order_id = sent[k].order_id
    /\ \A j \in (k + 1)..Len(sent) :
           ~(sent[j].fn = "create_execution" /\ sent[j].order_id = sent[k].order_id)

\* C36: for a tracked order that stays in a non-terminal status, a pass
\* sends an execution report only when the status or the filled_size
\* reported by the broker differs from the last report: of two passes in a
\* row, the second sends no report for an order that repeats the status and
\* the filled_size the first one delivered.
C36_ReportOnlyOnChange ==
    [][(op.name = "poll_execution_status" /\ op'.name = "poll_execution_status") =>
          \A k \in 1..Len(calls), n \in 1..Len(calls') :
              (/\ LastDelivered(calls, k)
               /\ calls'[n].fn = "create_execution"
               /\ calls'[n].order_id = calls[k].order_id) =>
                  \/ calls'[n].execution.status # calls[k].execution.status
                  \/ calls'[n].execution.filled_size # calls[k].execution.filled_size]_vars

-----------------------------------------------------------------------------
(* C37 *)

\* Before a pass: the order that the i-th entry of the pass, a handled one,
\* resolves to
OrderOfEntry(i) == broker_to_order_map[op'.reports[i].broker_order_id]

\* every signal-status update of the pass directly follows a create_execution
\* for the same order, which returned
UpdatesFollowCreate ==
    \A k \in 1..Len(calls') :
        calls'[k].fn = "update_signal_status" =>
            /\ k > 1
            /\ calls'[k - 1].fn = "create_execution"
            /\ calls'[k - 1].order_id = calls'[k].order_id

\* C37: within a pass the signal-status update for an order is sent only
\* after create_execution for that order has returned in the same pass, and
\* if create_execution raises for an order, the pass sends no
\* update_signal_status for that order.
C37_UpdateAfterCreate ==
    [][(op'.name = "poll_execution_status" /\ ~op'.query_raises) =>
          /\ UpdatesFollowCreate
          /\ \A i \in op'.handled :
                 op'.outcomes[i] = "create_raises" =>
                     CallsFor(calls', "update_signal_status", OrderOfEntry(i)) = <<>>]_vars

\* C37, its first half alone: an update is sent only after the
\* create_execution of the same order has returned
C37_UpdateAfterCreate_Order ==
    [][(op'.name = "poll_execution_status" /\ ~op'.query_raises) =>
          UpdatesFollowCreate]_vars

-----------------------------------------------------------------------------
(* C38 *)

\* C38: the batch pushed by sync_positions holds exactly one document per
\* canonical symbol: no two documents have the same symbol, and the batch has
\* as many documents as the cleanup call has current_symbols, also when two
\* broker symbols differ only in their exchange suffix.
C38_OneDocumentPerSymbol ==
    SyncCalled =>
        LET pushes == CallsOf(calls, "sync_positions")
            cleanups == CallsOf(calls, "cleanup_stale_positions")
        IN  /\ \A k \in 1..Len(pushes) :
                   \A i, j \in 1..Len(pushes[k].positions) :
                       i # j => pushes[k].positions[i].symbol # pushes[k].positions[j].symbol
            /\ (pushes # <<>> /\ cleanups # <<>>) =>
                   Len(pushes[1].positions) = Len(cleanups[1].current_symbols)

-----------------------------------------------------------------------------
(* C39 *)

\* the fetch of the current iteration returned
SignalsFetched == iteration.started /\ iteration.fetched # NoneNum

\* C39: an exception raised while one signal is handled, by the tracker, the
\* broker or the backend, the fallback retry_pending report included, does
\* not leave _handle_signal and does not keep the remaining fetched signals
\* from being handled in the order the backend returned them: the signals
\* handled so far are the first ones fetched, in order, no iteration ends in
\* the handling of a signal, and the poll and the end of the iteration are
\* reached with every fetched signal handled.
C39_SignalsAllHandled ==
    /\ op.name = "_handle_signal" => ret # "raised"
    /\ iteration.raised_in # "handle"
    /\ SignalsFetched =>
           /\ iteration.handled = Len(iteration.handled_signals)
           /\ iteration.handled <= Len(iteration.signals)
           /\ \A k \in 1..iteration.handled :
                  iteration.handled_signals[k].order_id = iteration.signals[k].order_id
           /\ pc \in {"poll", "sleep"} => iteration.handled = Len(iteration.signals)

\* an iteration that handled two signals in order although the first one
\* made the tracker raise and the fallback report failed too
C39_Witness ==
    /\ SignalsFetched
    /\ pc = "sleep"
    /\ Len(iteration.signals) = 2
    /\ iteration.signals[1].order_id = "O2"
    /\ iteration.signals[2].order_id = "O1"
    /\ iteration.handled = 2
    /\ iteration.handled_signals[1].order_id = "O2"
    /\ iteration.handled_signals[1].fallback
    /\ ~iteration.handled_signals[1].fallback_ok
    /\ iteration.handled_signals[2].order_id = "O1"

-----------------------------------------------------------------------------
(* C40 *)

\* the broker accepted a placement for order_id and its record is pending
AcceptedPending(order_id) ==
    /\ order_id \in DOMAIN pending_executions
    /\ pending_executions[order_id].broker_order_id # None

\* C40: with the loop polling for ever and the broker reporting every
\* broker_order_id it gave with a terminal status, the record of every order
\* the broker accepted is eventually removed from the pending table, also
\* when several orders were placed within one second or one order_id was
\* submitted more than once.
C40_EventuallyRemoved ==
    \A order_id \in OrderIds :
        AcceptedPending(order_id) ~> (order_id \notin DOMAIN pending_executions)

====
